---- MODULE Spec2Model ----
(***************************************************************************)
(* The upload session of cin7_smartsheet_gui.py: the front end handlers    *)
(* (start_upload_threaded, cancel_upload, the confirmation dialog), the    *)
(* worker thread upload_process, and the two remote protocols it drives,   *)
(* clear_smartsheet_data_enhanced and upload_data_enhanced.                *)
(*                                                                         *)
(* Threads: the Tk front end and one worker thread per accepted upload     *)
(* request.  A step of the model is one read or write of the shared fields *)
(* (is_processing, upload_cancelled, confirmation_result), or one remote   *)
(* call together with the thread-local code around it.  A time.sleep is    *)
(* folded into the step before it: other threads run between steps anyway. *)
(*                                                                         *)
(* Beside the session: the connect thread (connect_smartsheet), the file   *)
(* selection and the analysis thread (browse_file, analyze_file), and the  *)
(* data pipeline (clean_numeric_value, process_cin7_excel_data_fixed).     *)
(***************************************************************************)
EXTENDS Integers, Sequences, FiniteSets, TLC

\* ---------------------------------------------------------------- bounds
MaxSessions == 2        \* upload requests the front end makes
MaxRows == 3            \* rows of the cleaned table
MaxBatch == 2           \* largest batch_size_var
MaxRetries == 2         \* largest max_retries_var
MaxExistingRows == 850  \* rows on the remote sheet before the first session
ConfirmationPolls == 2  \* iterations of the confirmation wait (30 s / 0.1 s)

Sessions == 1..MaxSessions
BatchSizes == 1..MaxBatch
RetryCounts == 1..MaxRetries
ExistingRowCounts == {0, MaxExistingRows}

\* The cleaned table: one entry per row, TRUE when at least one cell of the
\* row is populated (upload_data_enhanced drops the other rows of a batch).
\* The tables of up to MaxRows rows with at most one unpopulated row.
Tables == {[i \in 1..n |-> i # b] : n \in 0..MaxRows, b \in 0..MaxRows}

\* The inputs of the specification with several upload requests: two populated
\* rows sent one per batch, one attempt per call, one row on the sheet.
TwoRowTable == {[i \in 1..2 |-> TRUE]}

VARIABLES
    is_processing,        \* self.is_processing
    upload_cancelled,     \* self.upload_cancelled
    confirmation_result,  \* self.confirmation_result: "None", "True", "False"
    upload_config,        \* self.upload_config (batch_size, max_retries)
    overwrite_var,        \* the overwrite checkbox
    batch_size_var,       \* the batch size spinbox
    max_retries_var,      \* the retries spinbox
    table,                \* what process_cin7_excel_data_fixed returns
    sheet,                \* the remote sheet: its row ids, in order
    pendingDialog,        \* sessions whose root.after(0, dialog) has not run
    dialogs,              \* open confirmation dialogs, innermost last
    pc,                   \* where each request / worker is
    loc,                  \* each worker's locals: wait_polls (iterations of the
                          \* confirmation wait), row_ids (clear: the fetched ids),
                          \* batch_num and attempt (the loop variables of clear and
                          \* upload), batch_size and uploaded_rows (upload),
                          \* success (what upload_data_enhanced returned),
                          \* source_file (the file processed_df was read from),
                          \* column_map (the sheet whose columns it maps); and,
                          \* as history, held_sheet (the sheet held when the
                          \* request was made) and selected_file (the file
                          \* selected when the data was processed)
    outcome,              \* what the worker reported last
    calls,                \* per session, the remote calls issued, in order
    sleeps,               \* per session, the time.sleep calls of clear and upload
    progress,             \* per session, the "Uploading: x/y rows" progress updates
    ownAnswer,            \* history: the answer given to the session's own dialog
    cancelSeen,           \* history: the phase in which a cancel was accepted
    cancelBetween,        \* history: the calls issued when a cancel came between batches
    cancelInWait,         \* history: a cancel was accepted after the worker's first
                          \* statement and before it left its confirmation wait
    raw,                  \* a raw cell value handed to clean_numeric_value
    quantity,             \* the quantity raw was written from
    token,                \* what clean_numeric_value returned for raw
    file_analysis,        \* self.file_analysis: df, df_multi (has_multi: not None)
    verbatim_var,         \* the verbatim checkbox
    column_mapping_var,   \* the column mapping checkbox
    cleaned,              \* what each run of process_cin7_excel_data_fixed returned
    new_rows,             \* the rows upload_data_enhanced builds from the last run
    pipe_pc,              \* where the data pipeline is
    smartsheet_client,    \* self.smartsheet_client: the token of the client, "None"
    smartsheet_sheet,     \* self.smartsheet_sheet: the id of the held sheet, "None"
    config,               \* self.config: the stored api_token and sheet_url
    excel_file_path,      \* self.excel_file_path: the selected file
    analyzed_file,        \* the file self.file_analysis was read from ("None":
                          \* the attribute is not set)
    analyzing,            \* the analysis: how many are scheduled (pending), where
                          \* the running thread is (pc), the file it read (path),
                          \* how many files were selected (browsed)
    connecting            \* the connect thread: where it is (pc), its locals
                          \* (api_token, sheet_url, sheet_id), how many attempts
                          \* were started, how the last one ended (result) and
                          \* what the session held when it started (prior)

shared == <<is_processing, upload_cancelled, confirmation_result, upload_config>>
normalizer == <<raw, quantity, token>>
processing == <<file_analysis, verbatim_var, column_mapping_var, cleaned, new_rows>>
pipeline == <<normalizer, processing, pipe_pc>>
connection == <<smartsheet_client, smartsheet_sheet, config, connecting>>
files == <<excel_file_path, analyzed_file, analyzing>>
inputs == <<overwrite_var, batch_size_var, max_retries_var, table, pipeline, connection, files>>
front == <<pendingDialog, dialogs>>
history == <<ownAnswer, cancelSeen, cancelBetween, cancelInWait>>
vars == <<shared, inputs, front, pc, loc, outcome, sheet, calls, sleeps, progress, history>>

\* ---------------------------------------------------------------- helpers
Min(a, b) == IF a < b THEN a ELSE b

Range(f) == {f[i] : i \in DOMAIN f}

\* Variant of TotalBatches: the batch count rounded down.
TotalBatchesFloor(n, b) == n \div b

\* (n + b - 1) // b
TotalBatches(n, b) == (n + b - 1) \div b

\* batch_num * batch_size
StartIdx(k, b) == k * b

\* min((batch_num + 1) * batch_size, n)
EndIdx(k, b, n) == Min((k + 1) * b, n)

\* The id the remote sheet gives the row appended for table row r by session s.
NewRowId(s, r) == MaxExistingRows + 1 + (s - 1) * (MaxRows + 1) + r

\* rows_to_add of the batch [lo, hi): the populated rows, in table order.
RowsToAdd(s, lo, hi) ==
    LET F[i \in lo..hi] ==
            IF i = lo THEN <<>>
            ELSE IF table[i] THEN Append(F[i - 1], NewRowId(s, i)) ELSE F[i - 1]
    IN F[hi]

\* What a remote call does: it returns, raises requests.exceptions.Timeout (a
\* transient error), or raises another exception (permission, validation,
\* authentication: a fatal error).
CallResults == {"ok", "timeout", "fatal"}
TransientResults == {"ok", "timeout"}

\* self.smartsheet_client.Sheets.<call>(self.smartsheet_sheet.id, ...) raises
\* AttributeError, and no call leaves the program, when one of the two is None.
Disconnected == smartsheet_client = "None" \/ smartsheet_sheet = "None"

\* How a remote call attempted now ends, res being what the remote side does.
CallResult(res) == IF Disconnected THEN "fatal" ELSE res

\* A remote call of the log: its operation, the slice [lo, hi) it is about, the
\* number of rows it carries, how it ended, and the sheet it was addressed to
\* (self.smartsheet_sheet.id; "None" for an attempt that raised before the call).
Call(op, lo, hi, n, res) ==
    [op |-> op, lo |-> lo, hi |-> hi, n |-> n, ok |-> res = "ok", err |-> res,
     sheet |-> IF Disconnected THEN "None" ELSE smartsheet_sheet]

\* A time.sleep of the log: it follows call number after of the session and
\* lasts factor times the configured delay ("retry_delay", "rate_limit_delay").
Sleep(delay, after, factor) == [delay |-> delay, after |-> after, factor |-> factor]

\* A progress update of upload_data_enhanced: "Uploading: uploaded/total rows",
\* put in the message queue after call number after of the session.
ProgressUpdate(after, uploaded, total) ==
    [after |-> after, uploaded |-> uploaded, total |-> total]

Active(s) == pc[s] \notin {"idle", "refused", "done"}

ClearPcs == {"clear_fetch", "clear_loop"}
ReportPcs == {"report", "report2"}
WaitPcs == {"wait", "wait_sleep", "check_conf", "reset_conf"}

InitLocals ==
    [wait_polls |-> 0, row_ids |-> <<>>, batch_num |-> 0, attempt |-> 0,
     batch_size |-> 0, uploaded_rows |-> 0, success |-> FALSE,
     processed_df |-> "unset", source_file |-> "unset", selected_file |-> "unset",
     column_map |-> "unset", held_sheet |-> "unset"]

\* No file is analyzed.
ProcessingIdle ==
    /\ file_analysis = [df |-> <<>>, has_multi |-> FALSE, df_multi |-> <<>>]
    /\ verbatim_var = FALSE
    /\ column_mapping_var = FALSE
    /\ cleaned = <<>>
    /\ new_rows = <<>>

\* The data pipeline has not run.
PipelineIdle ==
    /\ raw = ""
    /\ quantity = [ok |-> TRUE, neg |-> FALSE, mant |-> 0, decs |-> 0]
    /\ token = ""
    /\ ProcessingIdle
    /\ pipe_pc = "idle"

\* The sheet whose rows are the variable sheet, its address and the token it
\* was connected with.
MainSheet == "Main"
MainUrl == "app/sheets/Main?view=grid"
MainToken == "t1"

\* What the session holds of the connection.
Held == [client |-> smartsheet_client, sheet |-> smartsheet_sheet, config |-> config]

\* The connection made before the upload session: connect_smartsheet has run
\* with MainToken and MainUrl and has ended.
Connected ==
    /\ smartsheet_client = MainToken
    /\ smartsheet_sheet = MainSheet
    /\ config = [api_token |-> MainToken, sheet_url |-> MainUrl]
    /\ connecting = [pc |-> "idle", api_token |-> "", sheet_url |-> "", sheet_id |-> "",
                     started |-> 0, result |-> "None", prior |-> Held]

\* The file selected and analyzed before the upload session.
FirstFile == "a.xlsx"

FileSelected ==
    /\ excel_file_path = FirstFile
    /\ analyzed_file = FirstFile
    /\ analyzing = [pending |-> 0, pc |-> "idle", path |-> "", browsed |-> 0]

\* The state after __init__, a file selection and a connection: the upload
\* session has not started.
SessionInit(tables, sizes, retries, counts) ==
    /\ Connected
    /\ FileSelected
    /\ is_processing = FALSE
    /\ upload_cancelled = FALSE
    /\ confirmation_result = "None"
    /\ upload_config = [batch_size |-> 20, max_retries |-> 3]
    /\ overwrite_var \in BOOLEAN
    /\ batch_size_var \in sizes
    /\ max_retries_var \in retries
    /\ table \in tables
    /\ \E r \in counts : sheet = [i \in 1..r |-> i]
    /\ pendingDialog = {}
    /\ dialogs = <<>>
    /\ pc = [s \in Sessions |-> "idle"]
    /\ loc = [s \in Sessions |-> InitLocals]
    /\ outcome = [s \in Sessions |-> "None"]
    /\ calls = [s \in Sessions |-> <<>>]
    /\ sleeps = [s \in Sessions |-> <<>>]
    /\ progress = [s \in Sessions |-> <<>>]
    /\ ownAnswer = [s \in Sessions |-> "None"]
    /\ cancelSeen = [s \in Sessions |-> "None"]
    /\ cancelBetween = [s \in Sessions |-> -1]
    /\ cancelInWait = [s \in Sessions |-> FALSE]

InitWith(tables, sizes, retries, counts) ==
    /\ SessionInit(tables, sizes, retries, counts)
    /\ PipelineIdle

\* One upload request, over all the inputs.
Init == InitWith(Tables, BatchSizes, RetryCounts, ExistingRowCounts)

\* Several upload requests, over the small inputs.
InitRequests == InitWith(TwoRowTable, {1}, {1}, {1})

\* ---------------------------------------------------------------- strings
\* A str is a TLA+ string; a float is [ok, neg, mant, decs]: mant / 10^decs,
\* with its sign apart (float keeps the sign of zero).

Char(str, i) == SubSeq(str, i, i)

UpperLetters == "ABCDEFGHIJKLMNOPQRSTUVWXYZ"
LowerLetters == "abcdefghijklmnopqrstuvwxyz"
DigitChars == "0123456789"

IsDigit(c) == \E i \in 1..Len(DigitChars) : Char(DigitChars, i) = c

DigitValue(c) == (CHOOSE i \in 1..Len(DigitChars) : Char(DigitChars, i) = c) - 1

\* str.lower()
LowerChar(c) ==
    IF \E i \in 1..Len(UpperLetters) : Char(UpperLetters, i) = c
    THEN Char(LowerLetters, CHOOSE i \in 1..Len(UpperLetters) : Char(UpperLetters, i) = c)
    ELSE c

RECURSIVE Lower(_)
Lower(str) == IF str = "" THEN "" ELSE LowerChar(Head(str)) \o Lower(Tail(str))

\* pattern in str
Contains(str, pattern) ==
    \E i \in 0..(Len(str) - Len(pattern)) : SubSeq(str, i + 1, i + Len(pattern)) = pattern

\* str.replace(c, by) for a character c
RECURSIVE Replace(_, _, _)
Replace(str, c, by) ==
    IF str = "" THEN ""
    ELSE (IF Head(str) = c THEN by ELSE Head(str)) \o Replace(Tail(str), c, by)

\* str.rstrip(c) and str.lstrip(c) for a character c
RECURSIVE RStrip(_, _)
RStrip(str, c) ==
    IF str # "" /\ Char(str, Len(str)) = c THEN RStrip(SubSeq(str, 1, Len(str) - 1), c)
    ELSE str

RECURSIVE LStrip(_, _)
LStrip(str, c) == IF str # "" /\ Head(str) = c THEN LStrip(Tail(str), c) ELSE str

\* str.strip(): the whitespace of the model is the space
Strip(str) == RStrip(LStrip(str, " "), " ")

\* The longest prefix of str made of digits.
RECURSIVE DigitPrefix(_)
DigitPrefix(str) ==
    IF str # "" /\ IsDigit(Head(str)) THEN Head(str) \o DigitPrefix(Tail(str)) ELSE ""

Drop(str, n) == SubSeq(str, n + 1, Len(str))

RECURSIVE Pow10(_)
Pow10(n) == IF n = 0 THEN 1 ELSE 10 * Pow10(n - 1)

\* int() of a string of digits, and str() of a natural number
RECURSIVE DigitsToNat(_)
DigitsToNat(str) ==
    IF str = "" THEN 0
    ELSE 10 * DigitsToNat(SubSeq(str, 1, Len(str) - 1)) + DigitValue(Char(str, Len(str)))

RECURSIVE NatToStr(_)
NatToStr(n) ==
    IF n < 10 THEN Char(DigitChars, n + 1)
    ELSE NatToStr(n \div 10) \o Char(DigitChars, (n % 10) + 1)

\* float(str) for the literals of the model: an optional sign, then digits with
\* at most one point and at least one digit (no exponent, no "inf").  ok is
\* FALSE for ValueError.
ParseFloat(str) ==
    LET signed == str # "" /\ Head(str) \in {"-", "+"}
        body == IF signed THEN Tail(str) ELSE str
        whole == DigitPrefix(body)
        rest == Drop(body, Len(whole))
        frac == IF rest # "" /\ Head(rest) = "." THEN DigitPrefix(Tail(rest)) ELSE ""
        after == IF rest # "" /\ Head(rest) = "." THEN Drop(rest, 1 + Len(frac)) ELSE rest
    IN IF after # "" \/ (whole = "" /\ frac = "")
       THEN [ok |-> FALSE, neg |-> FALSE, mant |-> 0, decs |-> 0]
       ELSE [ok |-> TRUE,
             neg |-> signed /\ Head(str) = "-",
             mant |-> DigitsToNat(whole \o frac),
             decs |-> Len(frac)]

\* re.findall(r'-?\d+\.?\d*', str)[0]: the leftmost match, "" when there is none
RECURSIVE FirstNumber(_)
FirstNumber(str) ==
    IF str = "" THEN ""
    ELSE LET minus == Head(str) = "-" /\ Len(str) >= 2 /\ IsDigit(Char(str, 2))
             body == IF minus THEN Tail(str) ELSE str
             whole == DigitPrefix(body)
             rest == Drop(body, Len(whole))
             point == rest # "" /\ Head(rest) = "."
             frac == IF point THEN DigitPrefix(Tail(rest)) ELSE ""
         IN IF whole = "" THEN FirstNumber(Tail(str))
            ELSE (IF minus THEN "-" ELSE "") \o whole \o (IF point THEN "." ELSE "") \o frac

\* float.is_integer() (abs(x) < 1e15 holds for every number of the model)
IsInteger(x) == x.mant % Pow10(x.decs) = 0

\* str(int(x))
IntStr(x) ==
    LET n == x.mant \div Pow10(x.decs)
    IN (IF x.neg /\ n # 0 THEN "-" ELSE "") \o NatToStr(n)

\* f"{x:.2f}": x rounded to hundredths (a tie to the even neighbour), with the
\* sign of x
TwoDecimals(x) ==
    LET unit == IF x.decs > 2 THEN Pow10(x.decs - 2) ELSE 1
        scaled == IF x.decs > 2 THEN x.mant ELSE x.mant * Pow10(2 - x.decs)
        q == scaled \div unit
        r == scaled % unit
        h == IF 2 * r > unit \/ (2 * r = unit /\ q % 2 = 1) THEN q + 1 ELSE q
        cents == h % 100
    IN (IF x.neg THEN "-" ELSE "") \o NatToStr(h \div 100) \o "."
          \o NatToStr(cents \div 10) \o NatToStr(cents % 10)

\* The rendering of a parsed number in clean_numeric_value: a whole number as an
\* integer string, any other with two decimals less the trailing zeros and point.
FormatNumber(x) ==
    IF IsInteger(x) THEN IntStr(x) ELSE RStrip(RStrip(TwoDecimals(x), "0"), ".")

NullTokens == {"nan", "null", "none", "n/a", "#n/a"}

\* The missing value of pandas (float nan) in a cell; every other cell value of
\* the model is a str.
NaN == "<NaN>"

\* pd.notna(value), and str(value)
NotNa(value) == value # NaN

Str(value) == IF value = NaN THEN "nan" ELSE value

\* Variant of RemoveFormatting: the parentheses are dropped and the sign is lost.
RemoveFormattingDropParens(str) ==
    Replace(Replace(Replace(Replace(Replace(Strip(str), ",", ""), " ", ""), "$", ""),
                    "(", ""), ")", "")

\* The replacements of clean_numeric_value: commas, spaces and currency symbols
\* are removed, "(" becomes "-" and ")" is removed.
RemoveFormatting(str) ==
    Replace(Replace(Replace(Replace(Replace(Strip(str), ",", ""), " ", ""), "$", ""),
                    "(", "-"), ")", "")

\* clean_numeric_value on a cell whose str() is value
clean_numeric_value(value) ==
    IF ~NotNa(value) \/ value = "" THEN ""
    ELSE LET str_value == RemoveFormatting(value)
             numeric_value == ParseFloat(str_value)
             numbers == FirstNumber(str_value)
         IN IF Lower(str_value) \in NullTokens THEN ""
            ELSE IF numeric_value.ok THEN FormatNumber(numeric_value)
            ELSE IF numbers # "" THEN FormatNumber(ParseFloat(numbers))
            ELSE IF str_value # "" /\ str_value \notin {"0.0", "0.00"} THEN str_value
            ELSE ""

\* ---------------------------------------------------------------- frames
\* A DataFrame is [multi, levels, columns, rows]: its column labels (levels,
\* pairs of str, when the columns are a MultiIndex; columns, str, otherwise) and
\* its rows, each a sequence of cell values in column order.

\* self.cin7_column_mapping, in its order, and self.numeric_columns
cin7_column_mapping ==
    << [target |-> "ProductCode",
        patterns |-> {"productcode", "product_code", "product code"}],
       [target |-> "Product",
        patterns |-> {"product", "description", "product description"}],
       [target |-> "Branch",
        patterns |-> {"branch", "location", "warehouse"}],
       [target |-> "SOH",
        patterns |-> {"soh", "4 - soh", "stock on hand", "soh_stock qty"}],
       [target |-> "Incoming NOT paid",
        patterns |-> {"incoming", "5 -", "open po", "incoming not paid",
                      "incoming_not_paid_stock qty"}],
       [target |-> "Open Sales",
        patterns |-> {"open sales", "6 -", "allocated", "open_sales_stock qty"}],
       [target |-> "Grand Total",
        patterns |-> {"grand total", "7 -", "total", "grand_total_stock qty"}] >>

numeric_columns == {"SOH", "Incoming NOT paid", "Open Sales", "Grand Total", "Available"}

\* any(pattern in str(col).lower() for pattern in patterns)
MatchesAny(col, patterns) ==
    LET col_lower == Lower(col)
    IN \E pattern \in patterns : Contains(col_lower, pattern)

\* The first column of columns that matches, 0 when there is none.
RECURSIVE FirstMatchFrom(_, _, _)
FirstMatchFrom(columns, patterns, i) ==
    IF i > Len(columns) THEN 0
    ELSE IF MatchesAny(columns[i], patterns) THEN i
    ELSE FirstMatchFrom(columns, patterns, i + 1)

\* Variant of FirstMatch: the last column of columns that matches.
LastMatch(columns, patterns) ==
    LET matching == {i \in DOMAIN columns : MatchesAny(columns[i], patterns)}
    IN IF matching = {} THEN 0 ELSE CHOOSE i \in matching : \A j \in matching : j <= i

FirstMatch(columns, patterns) == FirstMatchFrom(columns, patterns, 1)

Frame(columns, rows) == [multi |-> FALSE, levels |-> <<>>, columns |-> columns, rows |-> rows]

\* df[columns[i]]
ColumnValues(df, i) == [r \in DOMAIN df.rows |-> df.rows[r][i]]

\* df[name] = values (a new column)
WithColumn(df, name, values) ==
    [df EXCEPT !.columns = Append(@, name),
               !.rows = [r \in DOMAIN df.rows |-> Append(df.rows[r], values[r])]]

\* One label of a MultiIndex as a flat name:
\* f"{col[0]}_{col[1]}".strip("_") when both levels are given and differ,
\* str(col[1] if col[1] else col[0]).strip() otherwise
FlatLabel(col) ==
    IF col[1] # "" /\ col[2] # "" /\ Strip(col[1]) # Strip(col[2])
    THEN RStrip(LStrip(col[1] \o "_" \o col[2], "_"), "_")
    ELSE Strip(IF col[2] # "" THEN col[2] ELSE col[1])

\* working_df.columns = new_columns
Flattened(df) ==
    [df EXCEPT !.multi = FALSE, !.levels = <<>>,
               !.columns = [i \in DOMAIN df.levels |-> FlatLabel(df.levels[i])]]

\* df.fillna('')
FillNa(df) ==
    [df EXCEPT !.rows = [r \in DOMAIN df.rows |->
                            [i \in DOMAIN df.rows[r] |->
                                IF NotNa(df.rows[r][i]) THEN df.rows[r][i] ELSE ""]]]

\* x - y for two floats
Minus(x, y) ==
    LET decs == IF x.decs > y.decs THEN x.decs ELSE y.decs
        a == (IF x.neg THEN -1 ELSE 1) * x.mant * Pow10(decs - x.decs)
        b == (IF y.neg THEN -1 ELSE 1) * y.mant * Pow10(decs - y.decs)
        d == a - b
    IN [ok |-> TRUE, neg |-> d < 0, mant |-> IF d < 0 THEN -d ELSE d, decs |-> decs]

\* float(val) if val else 0
FloatOrZero(val) == IF val = "" THEN ParseFloat("0") ELSE ParseFloat(val)

\* The Available cell of a mapped row: SOH minus Open Sales of the cleaned
\* values, '' when one of them is not a number.
Available(soh, open_sales) ==
    LET soh_num == FloatOrZero(clean_numeric_value(soh))
        open_sales_num == FloatOrZero(clean_numeric_value(open_sales))
    IN IF soh_num.ok /\ open_sales_num.ok
       THEN FormatNumber(Minus(soh_num, open_sales_num))
       ELSE ""

\* The default of a target column that no source column matches.
DefaultValue(target) ==
    IF target \in {"SOH", "Incoming NOT paid", "Open Sales", "Grand Total"} THEN "" ELSE "N/A"

\* mapped_df after the targets k.. of cin7_column_mapping are assigned to it.
\* mapped_df starts empty, without an index: a default (a scalar) assigned
\* before the first source column makes a column of no rows, and the first
\* source column assigned brings the index of df and leaves NaN in the columns
\* assigned before it.
RECURSIVE MapTargets(_, _, _, _)
MapTargets(df, k, mapped, indexed) ==
    IF k > Len(cin7_column_mapping) THEN mapped
    ELSE LET target == cin7_column_mapping[k].target
             source_col == FirstMatch(df.columns, cin7_column_mapping[k].patterns)
             found == source_col # 0 /\ df.columns[source_col] # ""
             values == [r \in DOMAIN df.rows |->
                           IF target \in numeric_columns
                           THEN clean_numeric_value(df.rows[r][source_col])
                           ELSE Strip(Str(df.rows[r][source_col]))]
             reindexed ==
                 IF indexed THEN mapped
                 ELSE [mapped EXCEPT !.rows =
                          [r \in DOMAIN df.rows |-> [i \in DOMAIN mapped.columns |-> NaN]]]
         IN IF found
            THEN MapTargets(df, k + 1, WithColumn(reindexed, target, values),
                            indexed \/ df.rows # <<>>)
            ELSE MapTargets(df, k + 1,
                            WithColumn(mapped, target,
                                       [r \in DOMAIN mapped.rows |-> DefaultValue(target)]),
                            indexed)

\* The column named name of df (there is one).
ColumnOf(df, name) == CHOOSE i \in DOMAIN df.columns : df.columns[i] = name

\* apply_cin7_column_mapping_fixed
apply_cin7_column_mapping_fixed(df) ==
    LET mapped_df == MapTargets(df, 1, Frame(<<>>, <<>>), FALSE)
        soh == ColumnOf(mapped_df, "SOH")
        open_sales == ColumnOf(mapped_df, "Open Sales")
    IN WithColumn(mapped_df, "Available",
                  [r \in DOMAIN mapped_df.rows |->
                      Available(mapped_df.rows[r][soh], mapped_df.rows[r][open_sales])])

\* The name indicators of a numeric column, with and without column mapping.
MappedIndicators == {"stock", "qty", "quantity", "total", "value", "incoming"}
UnmappedIndicators == MappedIndicators \cup {"sales", "soh"}

\* working_df[col] = working_df[col].apply(self.clean_numeric_value), for the
\* columns cols
CleanColumns(df, cols) ==
    [df EXCEPT !.rows = [r \in DOMAIN df.rows |->
                            [i \in DOMAIN df.rows[r] |->
                                IF i \in cols THEN clean_numeric_value(df.rows[r][i])
                                ELSE df.rows[r][i]]]]

\* working_df[col] = working_df[col].astype(str).apply(lambda x: x.strip()), for
\* every column
StripColumns(df) ==
    [df EXCEPT !.rows = [r \in DOMAIN df.rows |->
                            [i \in DOMAIN df.rows[r] |-> Strip(Str(df.rows[r][i]))]]]

\* The number format cleaning of process_cin7_excel_data_fixed: the columns
\* named in numeric_columns, or else those with an indicator in their name;
\* without column mapping those with an indicator, or else every column as a
\* stripped string.
CleanNumbers(df, mapping) ==
    LET named == {i \in DOMAIN df.columns : df.columns[i] \in numeric_columns}
        auto == {i \in DOMAIN df.columns : MatchesAny(df.columns[i], MappedIndicators)}
        detected == {i \in DOMAIN df.columns : MatchesAny(df.columns[i], UnmappedIndicators)}
    IN IF mapping
       THEN CleanColumns(df, IF named # {} THEN named ELSE auto)
       ELSE IF detected # {} THEN CleanColumns(df, detected) ELSE StripColumns(df)

\* Variant of KeepRow: only an empty key drops the row.
KeepRowUnlessEmpty(value) == value # ""

\* The row filter on the ProductCode value of a row: not '', not 'nan', and not
\* containing 'Grand Total', 'Total' or 'ProductCode' in any case (a NaN
\* contains nothing: na=False).
KeepRow(value) ==
    /\ value # ""
    /\ value # "nan"
    /\ NotNa(value) => ~MatchesAny(value, {"grand total", "total", "productcode"})

\* Remove invalid rows: the rows whose value in the first column that matches a
\* ProductCode pattern is kept; without such a column every row.
FilterRows(df) ==
    LET product_code_col == FirstMatch(df.columns, cin7_column_mapping[1].patterns)
    IN IF product_code_col # 0 /\ df.columns[product_code_col] # ""
       THEN [df EXCEPT !.rows = SelectSeq(df.rows, LAMBDA row : KeepRow(row[product_code_col]))]
       ELSE df

\* The frame process_cin7_excel_data_fixed works on.
WorkingFrame(fa, verbatim) == IF verbatim /\ fa.has_multi THEN fa.df_multi ELSE fa.df

\* working_df before the column mapping: flat column names, '' for NaN.
SourceFrame(fa, verbatim) ==
    LET working_df == WorkingFrame(fa, verbatim)
    IN FillNa(IF working_df.multi THEN Flattened(working_df) ELSE working_df)

\* working_df after the number format cleaning and, unless verbatim, the
\* removal of the invalid rows.
Finished(df, verbatim, mapping) ==
    IF verbatim THEN CleanNumbers(df, mapping) ELSE FilterRows(CleanNumbers(df, mapping))

\* process_cin7_excel_data_fixed: what it returns
process_cin7_excel_data_fixed(fa, verbatim, mapping) ==
    LET working_df == SourceFrame(fa, verbatim)
    IN Finished(IF mapping THEN apply_cin7_column_mapping_fixed(working_df) ELSE working_df,
                verbatim, mapping)

\* Variant of StoredAfterProcessing: the processed frame is stored back as the
\* analysis of the file.
StoredOverwritten(fa, verbatim, mapping) ==
    [fa EXCEPT !.df = process_cin7_excel_data_fixed(fa, verbatim, mapping)]

\* self.file_analysis after process_cin7_excel_data_fixed: the columns of the
\* stored df_multi are assigned in place when it is the working frame.
StoredAfterProcessing(fa, verbatim, mapping) ==
    IF verbatim /\ fa.has_multi /\ fa.df_multi.multi
    THEN [fa EXCEPT !.df_multi = Flattened(@)]
    ELSE fa

\* The titles of the columns of the remote sheet (column_map).
SheetTitles ==
    {cin7_column_mapping[k].target : k \in DOMAIN cin7_column_mapping} \cup {"Available"}

\* new_row.cells of upload_data_enhanced for one row of the cleaned table: a
\* cell for every column of the sheet whose stripped value is not empty and not
\* 'nan', 'None' or 'null'; the value of a numeric column is cleaned once more.
CellsOf(columns, row) ==
    LET F[i \in 0..Len(columns)] ==
            IF i = 0 THEN <<>>
            ELSE LET clean_value == IF NotNa(row[i]) THEN Strip(Str(row[i])) ELSE ""
                 IN IF /\ columns[i] \in SheetTitles
                       /\ clean_value # ""
                       /\ clean_value \notin {"nan", "None", "null"}
                    THEN Append(F[i - 1],
                                [column |-> columns[i],
                                 value |-> IF columns[i] \in numeric_columns
                                           THEN clean_numeric_value(clean_value)
                                           ELSE clean_value])
                    ELSE F[i - 1]
    IN F[Len(columns)]

\* Variant of RowsOf: a row without cells is sent too.
RowsOfWithEmpty(df) == [r \in DOMAIN df.rows |-> CellsOf(df.columns, df.rows[r])]

\* rows_to_add over the whole table: the rows with at least one cell.
RowsOf(df) ==
    SelectSeq([r \in DOMAIN df.rows |-> CellsOf(df.columns, df.rows[r])],
              LAMBDA cells : cells # <<>>)

\* -------------------------------------------------------- numeric inputs
\* A raw numeric input is written from a whole part and a fractional part (its
\* digits; never a tie between two hundredths, whose rounding depends on the
\* binary double), with or without thousands separators and a currency symbol,
\* a negative one with a minus sign or in parentheses.
WholeParts == {0, 7, 50, 999, 1244, 20000}
FracParts == {"", "0", "00", "5", "50", "07", "567", "004", "999"}
SignStyles == {"plain", "minus", "parens"}

NumericInputs ==
    [whole : WholeParts, frac : FracParts, sign : SignStyles,
     thousands : BOOLEAN, currency : BOOLEAN]

\* The digits of n in groups of three separated by commas.
RECURSIVE Grouped(_)
Grouped(n) ==
    IF n < 1000 THEN NatToStr(n)
    ELSE LET low == n % 1000
         IN Grouped(n \div 1000) \o ","
               \o NatToStr(low \div 100) \o NatToStr((low \div 10) % 10) \o NatToStr(low % 10)

\* The text of a numeric input, as an export writes it.
Render(in) ==
    LET digits == (IF in.thousands THEN Grouped(in.whole) ELSE NatToStr(in.whole))
                     \o (IF in.frac = "" THEN "" ELSE "." \o in.frac)
        amount == (IF in.currency THEN "$" ELSE "") \o digits
    IN CASE in.sign = "plain" -> amount
         [] in.sign = "minus" -> "-" \o amount
         [] in.sign = "parens" -> "(" \o amount \o ")"

\* The quantity a numeric input stands for.
QuantityOf(in) ==
    [ok |-> TRUE, neg |-> in.sign # "plain",
     mant |-> in.whole * Pow10(Len(in.frac)) + DigitsToNat(in.frac),
     decs |-> Len(in.frac)]

\* The null-like texts of an export.
NullInputs == {"N/A", "n/a", "#N/A", "NaN", "null", "None", ""}

\* clean_numeric_value is applied to a raw value.
InitNormalize ==
    /\ SessionInit({<<>>}, {1}, {1}, {0})
    /\ overwrite_var = FALSE
    /\ \/ \E in \in NumericInputs : raw = Render(in) /\ quantity = QuantityOf(in)
       \/ raw \in NullInputs /\ quantity = [ok |-> FALSE, neg |-> FALSE, mant |-> 0, decs |-> 0]
    /\ token = ""
    /\ ProcessingIdle
    /\ pipe_pc = "raw"

Normalize ==
    /\ pipe_pc = "raw"
    /\ token' = clean_numeric_value(raw)
    /\ pipe_pc' = "normalized"
    /\ UNCHANGED <<shared, overwrite_var, batch_size_var, max_retries_var, table,
                   raw, quantity, processing, connection, files, front, pc, loc, outcome,
                   sheet, calls, sleeps, progress, history>>

SpecNormalize == InitNormalize /\ [][Normalize]_vars

\* The texts an export leaves in a numeric column beside numbers: a note, a
\* lone sign, empty parentheses, a lone currency symbol.
TextInputs == {"TBC", "-", "( )", "$"}

\* clean_numeric_value is applied to any raw value, a text included.
InitRaw ==
    /\ SessionInit({<<>>}, {1}, {1}, {0})
    /\ overwrite_var = FALSE
    /\ \/ \E in \in NumericInputs : raw = Render(in) /\ quantity = QuantityOf(in)
       \/ /\ raw \in NullInputs \cup TextInputs
          /\ quantity = [ok |-> FALSE, neg |-> FALSE, mant |-> 0, decs |-> 0]
    /\ token = ""
    /\ ProcessingIdle
    /\ pipe_pc = "raw"

SpecRaw == InitRaw /\ [][Normalize]_vars

\* ------------------------------------------------------ the data pipeline
\* The runs of process_cin7_excel_data_fixed on one analyzed file (a preview or
\* an upload each run it once).
MaxRuns == 2

\* The headers of an export and the first of its numeric columns: the usual
\* export, one with numbered headers, one with a renamed last column, one with
\* an Available column, one with two columns of one name, one with a key and a
\* note only, and one that is no stock export.
NumberedHeaders == <<"SKU", "Name", "Loc", "4 - SOH", "5 - Incoming", "6 - Open", "7 - Total">>

SourceLayouts ==
    { [columns |-> <<"ProductCode", "Product", "Branch", "SOH", "Incoming NOT paid",
                     "Open Sales", "Grand Total">>, numbers |-> 4],
      [columns |-> NumberedHeaders, numbers |-> 4],
      [columns |-> <<"ProductCode", "Product", "Branch", "SOH", "Incoming NOT paid",
                     "Open Sales", "Closing">>, numbers |-> 4],
      [columns |-> <<"ProductCode", "Available", "SOH">>, numbers |-> 2],
      [columns |-> <<"ProductCode", "SOH", "SOH">>, numbers |-> 2],
      [columns |-> <<"ProductCode", "Note">>, numbers |-> 3],
      [columns |-> <<"Item", "Note">>, numbers |-> 3] }

\* The cell values of an export as read_csv and read_excel give them: a blank
\* cell and the null-like texts of pandas (nan, NaN, null, NULL, None, N/A,
\* n/a, #N/A, ...) are NaN; none, in lower case, is not one of them.
KeyValues == {"A1", "none", NaN, "Grand Total"}
TextValues == {"Main", NaN}
NumberValues == {"1,244.00", "(50)", "$", NaN}

\* A row of an export: its key, its texts, its first number; the other numbers
\* are 5.
SourceRow(layout, key, text, number) ==
    [i \in DOMAIN layout.columns |->
        IF i = 1 THEN key
        ELSE IF i < layout.numbers THEN text
        ELSE IF i = layout.numbers THEN number
        ELSE "5"]

\* The tables of an export: none, one or two rows.
SourceRows(layout) ==
    {<<>>}
    \cup {<<SourceRow(layout, key, text, number)>> :
             key \in KeyValues, text \in TextValues, number \in NumberValues}
    \cup {<<SourceRow(layout, key, "Main", "7.5"), SourceRow(layout, second, "Main", "(50)")>> :
             key \in KeyValues, second \in {"A2", "Total"}}

\* The column names read_csv and read_excel give to the headers of a file: a
\* name that was there before gets the suffix .1, .2, ...
MangledNames(headers) ==
    [i \in DOMAIN headers |->
        LET before == Cardinality({j \in 1..(i - 1) : headers[j] = headers[i]})
        IN IF before = 0 THEN headers[i] ELSE headers[i] \o "." \o NatToStr(before)]

\* pd.read_excel(..., header=[0, 1]) of a sheet with the headers and the rows
\* that pd.read_excel(...) reads as df: the first row is the second level of
\* the column labels (a blank cell is Unnamed: i_level_1), and a label that was
\* there before gets a suffix at its second level.
MultiHeaderFrame(headers, rows) ==
    LET label == [i \in DOMAIN headers |->
                     <<headers[i],
                       IF NotNa(rows[1][i]) /\ rows[1][i] # ""
                       THEN rows[1][i]
                       ELSE "Unnamed: " \o NatToStr(i - 1) \o "_level_1">>]
    IN [multi |-> TRUE,
        levels |-> [i \in DOMAIN headers |->
                       LET before == Cardinality({j \in 1..(i - 1) : label[j] = label[i]})
                       IN IF before = 0 THEN label[i]
                          ELSE <<label[i][1], label[i][2] \o "." \o NatToStr(before)>>],
        columns |-> <<>>,
        rows |-> Tail(rows)]

\* analyze_file_threaded: self.file_analysis of a file, read with one header
\* row and, for a workbook that allows it, with two.
FileAnalysis(headers, rows, has_multi) ==
    [df |-> Frame(MangledNames(headers), rows), has_multi |-> has_multi,
     df_multi |-> IF has_multi THEN MultiHeaderFrame(headers, rows) ELSE <<>>]

\* A file is analyzed and the two checkboxes are set.
InitPipeline ==
    /\ SessionInit({<<>>}, {1}, {1}, {0})
    /\ overwrite_var = FALSE
    /\ raw = "" /\ token = ""
    /\ quantity = [ok |-> FALSE, neg |-> FALSE, mant |-> 0, decs |-> 0]
    /\ \E layout \in SourceLayouts : \E rows \in SourceRows(layout) : \E has_multi \in BOOLEAN :
          /\ has_multi => rows # <<>>
          /\ file_analysis = FileAnalysis(layout.columns, rows, has_multi)
    /\ verbatim_var \in BOOLEAN
    /\ column_mapping_var \in BOOLEAN
    /\ cleaned = <<>>
    /\ new_rows = <<>>
    /\ pipe_pc = "analyzed"

\* preview_data / upload_process: process_cin7_excel_data_fixed runs on the
\* stored analysis.
ProcessData ==
    /\ pipe_pc \in {"analyzed", "processed", "built"}
    /\ Len(cleaned) < MaxRuns
    /\ cleaned' = Append(cleaned, process_cin7_excel_data_fixed(file_analysis, verbatim_var,
                                                               column_mapping_var))
    /\ file_analysis' = StoredAfterProcessing(file_analysis, verbatim_var, column_mapping_var)
    /\ pipe_pc' = "processed"
    /\ UNCHANGED <<shared, overwrite_var, batch_size_var, max_retries_var, table, normalizer,
                   verbatim_var, column_mapping_var, new_rows, connection, files, front, pc, loc,
                   outcome, sheet, calls, sleeps, progress, history>>

\* upload_data_enhanced: the rows of the append calls are built from the
\* processed table.
BuildRows ==
    /\ pipe_pc = "processed"
    /\ new_rows' = RowsOf(cleaned[Len(cleaned)])
    /\ pipe_pc' = "built"
    /\ UNCHANGED <<shared, overwrite_var, batch_size_var, max_retries_var, table, normalizer,
                   file_analysis, verbatim_var, column_mapping_var, cleaned, connection, files,
                   front, pc, loc, outcome, sheet, calls, sleeps, progress, history>>

NextPipeline == ProcessData \/ BuildRows

SpecPipeline == InitPipeline /\ [][NextPipeline]_vars

\* The rest of the program, which the connect and the file threads leave alone.
session ==
    <<shared, overwrite_var, batch_size_var, max_retries_var, table, pipeline, front,
      pc, loc, outcome, sheet, calls, sleeps, progress, history>>

\* ----------------------------------------------------------------- files
\* The files selected beside the one before the upload session.
MaxBrowses == 2

\* The files the user can select.
Files == {FirstFile, "b.xlsx"}

\* browse_file: a file is chosen in the dialog, self.excel_file_path is set and
\* the analysis is scheduled (root.after(500, ...)); a dialog left without a
\* choice changes nothing.
BrowseFile(file_path) ==
    /\ analyzing.browsed < MaxBrowses
    /\ excel_file_path' = file_path
    /\ analyzing' = [analyzing EXCEPT !.browsed = @ + 1, !.pending = @ + 1]
    /\ UNCHANGED <<analyzed_file, connection, session>>

\* A scheduled analysis runs, one at a time.  analyze_file, the reads of the
\* selected file: pd.read_csv / pd.read_excel return the frames (ok) or raise;
\* the handler logs the error and the thread ends
AnalyzeRead(ok) ==
    /\ analyzing.pc = "idle"
    /\ analyzing.pending > 0
    /\ analyzing' = IF ok THEN [analyzing EXCEPT !.pending = @ - 1, !.pc = "read",
                                                 !.path = excel_file_path]
                    ELSE [analyzing EXCEPT !.pending = @ - 1]
    /\ UNCHANGED <<excel_file_path, analyzed_file, connection, session>>

\* analyze_file: self.file_analysis = {'df': df, 'df_multi': df_multi, ...}
AnalyzeStore ==
    /\ analyzing.pc = "read"
    /\ analyzed_file' = analyzing.path
    /\ analyzing' = [analyzing EXCEPT !.pc = "idle"]
    /\ UNCHANGED <<excel_file_path, connection, session>>

\* The steps of the file selection and of the analysis thread.
SelectFiles ==
    \/ \E file_path \in Files : BrowseFile(file_path)
    \/ \E ok \in BOOLEAN : AnalyzeRead(ok)
    \/ AnalyzeStore

\* ------------------------------------------------------------ connection
\* The connect attempts made beside the one before the upload session.
MaxConnects == 2

\* str.find(pattern): the offset of the first occurrence, -1 when there is none
Find(str, pattern) ==
    LET at == {i \in 0..(Len(str) - Len(pattern)) :
                  SubSeq(str, i + 1, i + Len(pattern)) = pattern}
    IN IF at = {} THEN -1 ELSE CHOOSE i \in at : \A j \in at : i <= j

\* str.split(pattern)[0] and str.split(pattern)[1] (pattern is in str)
SplitFirst(str, pattern) ==
    IF Find(str, pattern) = -1 THEN str ELSE SubSeq(str, 1, Find(str, pattern))

SplitSecond(str, pattern) ==
    SplitFirst(Drop(str, Find(str, pattern) + Len(pattern)), pattern)

\* re.search(r'\d{n}', str): the first n digits in a row, "None" for no match
RECURSIVE SearchDigits(_, _)
SearchDigits(str, n) ==
    IF Len(str) < n THEN "None"
    ELSE IF Len(DigitPrefix(SubSeq(str, 1, n))) = n THEN SubSeq(str, 1, n)
    ELSE SearchDigits(Tail(str), n)

\* re.search(r'\d{n,}', str): the first run of at least n digits, whole
RECURSIVE SearchDigitRun(_, _)
SearchDigitRun(str, n) ==
    IF Len(str) < n THEN "None"
    ELSE IF Len(DigitPrefix(str)) >= n THEN DigitPrefix(str)
    ELSE SearchDigitRun(Tail(str), n)

\* extract_sheet_id_enhanced: the segment after /sheets/, the EQBCT parameter of
\* a published sheet, 19 digits in a row, a run of 10 digits or more; "None"
\* when nothing matches
extract_sheet_id_enhanced(url) ==
    IF Contains(url, "/sheets/")
    THEN SplitFirst(SplitFirst(SplitSecond(url, "/sheets/"), "?"), "/")
    ELSE IF Contains(url, "/b/publish?EQBCT=")
    THEN SplitFirst(SplitSecond(url, "EQBCT="), "&")
    ELSE IF SearchDigits(url, 19) # "None" THEN SearchDigits(url, 19)
    ELSE SearchDigitRun(url, 10)

\* not sheet_id
Falsy(value) == value \in {"", "None"}

\* What the user has in the token entry and in the address entry when Connect
\* is pressed: the address of the main sheet and of another sheet in the three
\* forms, an address without an identifier (no segment, a number too short),
\* an empty segment, nothing.
TokenEntries == {MainToken, " t2 ", ""}
UrlEntries ==
    {MainUrl, "app/sheets/Other/edit", "app/b/publish?EQBCT=Other&x=1",
     "app/b/4583173393803140", "app/b/12345678901234567890x",
     "app/home?id=12345", "app/sheets/", ""}

\* connect_smartsheet up to the new client: the entries are read; without a
\* token or an address the attempt fails at once; otherwise both are stored in
\* the configuration and saved, and a client is made with the token.
ConnectSmartsheet(token_entry, url_entry) ==
    /\ connecting.pc = "idle"
    /\ connecting.started < MaxConnects
    /\ LET api_token == Strip(token_entry)
           sheet_url == Strip(url_entry)
           started == [connecting EXCEPT !.api_token = api_token, !.sheet_url = sheet_url,
                                         !.sheet_id = "", !.started = @ + 1,
                                         !.prior = Held]
       IN IF api_token = "" \/ sheet_url = ""
          THEN /\ connecting' = [started EXCEPT !.result = "no_entry"]
               /\ UNCHANGED <<smartsheet_client, config>>
          ELSE /\ config' = [api_token |-> api_token, sheet_url |-> sheet_url]
               /\ smartsheet_client' = api_token
               /\ connecting' = [started EXCEPT !.pc = "extract", !.result = "None"]
    /\ UNCHANGED <<smartsheet_sheet, files, session>>

\* sheet_id = self.extract_sheet_id_enhanced(sheet_url); if not sheet_id:
\* "Could not extract sheet ID from URL", connection_failed, return
ExtractSheetId ==
    /\ connecting.pc = "extract"
    /\ LET sheet_id == extract_sheet_id_enhanced(connecting.sheet_url)
       IN connecting' =
             IF Falsy(sheet_id)
             THEN [connecting EXCEPT !.pc = "idle", !.result = "unresolved"]
             ELSE [connecting EXCEPT !.pc = "get_sheet", !.sheet_id = sheet_id]
    /\ UNCHANGED <<smartsheet_client, smartsheet_sheet, config, files, session>>

\* self.smartsheet_sheet = self.smartsheet_client.Sheets.get_sheet(sheet_id);
\* an exception reaches the handler, whose first assignment is
\* self.smartsheet_client = None
ConnectGetSheet(res) ==
    /\ connecting.pc = "get_sheet"
    /\ IF res = "ok"
       THEN /\ smartsheet_sheet' = connecting.sheet_id
            /\ connecting' = [connecting EXCEPT !.pc = "idle", !.result = "connected"]
            /\ UNCHANGED smartsheet_client
       ELSE /\ smartsheet_client' = "None"
            /\ connecting' = [connecting EXCEPT !.pc = "except"]
            /\ UNCHANGED smartsheet_sheet
    /\ UNCHANGED <<config, files, session>>

\* the handler's second assignment: self.smartsheet_sheet = None
ConnectExcept ==
    /\ connecting.pc = "except"
    /\ smartsheet_sheet' = "None"
    /\ connecting' = [connecting EXCEPT !.pc = "idle", !.result = "failed"]
    /\ UNCHANGED <<smartsheet_client, config, files, session>>

\* The entries of a connect attempt made while an upload session runs: another
\* token, and the address of another sheet or one without an identifier.
OtherTokenEntries == {" t2 "}
OtherUrlEntries == {"app/sheets/Other/edit", "app/home?id=12345"}

\* The steps of the connect thread, the entries being among tokens and urls.
ConnectWith(tokens, urls) ==
    \/ \E token_entry \in tokens : \E url_entry \in urls :
          ConnectSmartsheet(token_entry, url_entry)
    \/ ExtractSheetId
    \/ \E res \in {"ok", "fatal"} : ConnectGetSheet(res)
    \/ ConnectExcept

\* Connect attempts alone, over all the entries.
NextConnect == ConnectWith(TokenEntries, UrlEntries)

SpecConnect == InitRequests /\ [][NextConnect]_vars

\* ------------------------------------------------------------- front end

\* start_upload_threaded: the is_processing guard, then the thread is started;
\* upload_process sets is_processing itself, when it runs.  A file is selected.
\* Without a client or a sheet ("Please connect to Smartsheet first") no thread
\* is started either.  Request s is the next one the front end makes.
StartUploadThreaded(s) ==
    /\ pc[s] = "idle"
    /\ \A t \in Sessions : t < s => pc[t] # "idle"
    /\ pc' = [pc EXCEPT ![s] = IF is_processing \/ Disconnected THEN "refused" ELSE "spawned"]
    /\ loc' = [loc EXCEPT ![s].held_sheet = smartsheet_sheet]
    /\ UNCHANGED <<shared, inputs, front, outcome, sheet, calls, sleeps, progress, history>>

\* The phase a worker is in, for the history of accepted cancel requests
\* ("between": in upload_data_enhanced, after a batch and before the next).
\* Before its self.upload_cancelled = False a worker is in no phase.
Phase(s) ==
    IF pc[s] \in WaitPcs THEN "wait"
    ELSE IF pc[s] \in ClearPcs THEN "clear"
    ELSE IF pc[s] = "upload_loop"
    THEN IF loc[s].attempt = 0 /\ loc[s].batch_num >= 1 THEN "between" ELSE "upload"
    ELSE IF pc[s] \in ReportPcs THEN "report"
    ELSE "None"

\* cancel_upload
CancelUpload ==
    IF is_processing
    THEN /\ upload_cancelled' = TRUE
         /\ confirmation_result' = "False"
         /\ cancelSeen' = [s \in Sessions |->
                IF cancelSeen[s] = "None" THEN Phase(s) ELSE cancelSeen[s]]
         /\ cancelBetween' = [s \in Sessions |->
                IF cancelBetween[s] = -1 /\ Phase(s) = "between"
                THEN Len(calls[s]) ELSE cancelBetween[s]]
         /\ cancelInWait' = [s \in Sessions |->
                cancelInWait[s] \/ pc[s] \in {"setup", "wait", "wait_sleep"}]
         /\ UNCHANGED <<is_processing, upload_config, inputs, front, pc, loc,
                        outcome, sheet, calls, sleeps, progress, ownAnswer>>
    ELSE UNCHANGED vars

\* The callback of root.after(0, show_enhanced_confirmation_dialog) runs: the
\* modal dialog opens, inside the event loop of any dialog already open.
ShowDialog(s) ==
    /\ s \in pendingDialog
    /\ pendingDialog' = pendingDialog \ {s}
    /\ dialogs' = Append(dialogs, s)
    /\ UNCHANGED <<shared, inputs, pc, loc, outcome, sheet, calls, sleeps, progress, history>>

\* show_enhanced_confirmation_dialog, from the return of askyesno: the user
\* answers the innermost dialog ("False" also when the dialog code raises).
AnswerDialog(ans) ==
    /\ dialogs # <<>>
    /\ LET s == dialogs[Len(dialogs)]
       IN /\ confirmation_result' = ans
          /\ dialogs' = SubSeq(dialogs, 1, Len(dialogs) - 1)
          /\ ownAnswer' = [ownAnswer EXCEPT ![s] = ans]
    /\ UNCHANGED <<is_processing, upload_cancelled, upload_config, inputs,
                   pendingDialog, pc, loc, outcome, sheet, calls, sleeps, progress,
                   cancelSeen, cancelBetween, cancelInWait>>

\* ---------------------------------------------------------------- worker

\* upload_process, first statement: self.is_processing = True
Begin(s) ==
    /\ pc[s] = "spawned"
    /\ is_processing' = TRUE
    /\ pc' = [pc EXCEPT ![s] = "setup"]
    /\ UNCHANGED <<upload_cancelled, confirmation_result, upload_config, inputs,
                   front, loc, outcome, sheet, calls, sleeps, progress, history>>

\* The file process_cin7_excel_data_fixed takes its data from: the stored
\* analysis if hasattr(self, 'file_analysis'), else the selected file
SourceFile == IF analyzed_file # "None" THEN analyzed_file ELSE excel_file_path

\* Variant of NoData: only a failed processing (None) ends the session.
NoDataOnlyNone(ok) == ~ok

\* if processed_df is None or processed_df.empty
NoData(ok) == ~ok \/ table = <<>>

\* upload_process from self.upload_cancelled = False to the start of the
\* confirmation wait: the configuration is read from the UI, the data is
\* processed (ok = FALSE: process_cin7_excel_data_fixed returned None), and the
\* dialog is scheduled on the front end.  "No data" ends the session.
Setup(s, ok) ==
    /\ pc[s] = "setup"
    /\ upload_cancelled' = FALSE
    /\ upload_config' = [batch_size |-> batch_size_var, max_retries |-> max_retries_var]
    /\ IF NoData(ok)
       THEN /\ pc' = [pc EXCEPT ![s] = "done"]
            /\ outcome' = [outcome EXCEPT ![s] = "Failed"]
            /\ is_processing' = FALSE
            /\ loc' = [loc EXCEPT ![s].processed_df =
                          IF ~ok THEN "None" ELSE IF table = <<>> THEN "empty" ELSE "rows",
                                  ![s].source_file = SourceFile,
                                  ![s].selected_file = excel_file_path]
            /\ UNCHANGED pendingDialog
       ELSE /\ pc' = [pc EXCEPT ![s] = "wait"]
            /\ pendingDialog' = pendingDialog \cup {s}
            /\ loc' = [loc EXCEPT ![s].wait_polls = 0,
                                  ![s].processed_df =
                                      IF table = <<>> THEN "empty" ELSE "rows",
                                  ![s].source_file = SourceFile,
                                  ![s].selected_file = excel_file_path]
            /\ UNCHANGED <<outcome, is_processing>>
    /\ UNCHANGED <<confirmation_result, inputs, dialogs, sheet, calls, sleeps, progress, history>>

\* while self.confirmation_result is None and wait_time < confirmation_timeout
WaitCheck(s) ==
    /\ pc[s] = "wait"
    /\ IF confirmation_result = "None" /\ loc[s].wait_polls < ConfirmationPolls
       THEN /\ pc' = [pc EXCEPT ![s] = "wait_sleep"]
            /\ loc' = [loc EXCEPT ![s].wait_polls = @ + 1]
       ELSE /\ pc' = [pc EXCEPT ![s] = "check_conf"]
            /\ UNCHANGED loc
    /\ UNCHANGED <<shared, inputs, front, outcome, sheet, calls, sleeps, progress, history>>

\* the body of the wait: after the sleep, if self.upload_cancelled: return
WaitSleep(s) ==
    /\ pc[s] = "wait_sleep"
    /\ IF upload_cancelled
       THEN /\ pc' = [pc EXCEPT ![s] = "done"]
            /\ outcome' = [outcome EXCEPT ![s] = "Cancelled"]
            /\ is_processing' = FALSE
       ELSE /\ pc' = [pc EXCEPT ![s] = "wait"]
            /\ UNCHANGED <<outcome, is_processing>>
    /\ UNCHANGED <<upload_cancelled, confirmation_result, upload_config, inputs,
                   front, loc, sheet, calls, sleeps, progress, history>>

\* if self.confirmation_result != True: "Upload cancelled by user", return
CheckConf(s) ==
    /\ pc[s] = "check_conf"
    /\ IF confirmation_result # "True"
       THEN /\ pc' = [pc EXCEPT ![s] = "done"]
            /\ outcome' = [outcome EXCEPT ![s] = "Cancelled"]
            /\ is_processing' = FALSE
       ELSE /\ pc' = [pc EXCEPT ![s] = "reset_conf"]
            /\ UNCHANGED <<outcome, is_processing>>
    /\ UNCHANGED <<upload_cancelled, confirmation_result, upload_config, inputs,
                   front, loc, sheet, calls, sleeps, progress, history>>

\* upload_data_enhanced up to its loop: the locals are set; column_map is made
\* from the columns of self.smartsheet_sheet (the sheet it is the map of;
\* "None": the attribute access raised).
EnterUpload(l) ==
    [l EXCEPT !.batch_size = upload_config.batch_size, !.batch_num = 0,
              !.attempt = 0, !.uploaded_rows = 0, !.column_map = smartsheet_sheet]

\* self.confirmation_result = None, then the overwrite test
ResetConf(s) ==
    /\ pc[s] = "reset_conf"
    /\ confirmation_result' = "None"
    /\ IF overwrite_var
       THEN /\ pc' = [pc EXCEPT ![s] = "clear_fetch"]
            /\ loc' = [loc EXCEPT ![s].attempt = 0]
       ELSE /\ pc' = [pc EXCEPT ![s] = "upload_loop"]
            /\ loc' = [loc EXCEPT ![s] = EnterUpload(@)]
    /\ UNCHANGED <<is_processing, upload_cancelled, upload_config, inputs, front,
                   outcome, sheet, calls, sleeps, progress, history>>

\* Variant of ClearBatchSize: clear uses the configured batch size.
ClearBatchSizeFromConfig == upload_config.batch_size

\* batch_size = 400 in clear_smartsheet_data_enhanced
ClearBatchSize == 400

\* Variant of LastAttempt: one attempt more than max_retries.
LastAttemptOffByOne(a) == a = upload_config.max_retries

\* if attempt == self.upload_config['max_retries'] - 1: raise
LastAttempt(a) == a = upload_config.max_retries - 1

\* The rows of the sheet a call is addressed to.  Only the rows of MainSheet
\* are part of the state: another sheet has no rows when it is fetched.
RemoteRows == IF smartsheet_sheet = MainSheet THEN sheet ELSE <<>>

\* The rows of MainSheet after a successful call that leaves it as after when
\* it is addressed to MainSheet.
OnRemote(after) == IF smartsheet_sheet = MainSheet THEN after ELSE sheet

\* Sheets.delete_rows on the remote sheet
DeleteRows(sh, ids) == SelectSeq(sh, LAMBDA id : id \notin ids)

\* Sheets.add_rows with to_bottom rows
AddRows(sh, rows) == sh \o rows

\* batch_ids = row_ids[start_idx:end_idx]
BatchIds(ids, lo, hi) == {ids[i] : i \in (lo + 1)..hi}

\* Variant of RaiseFromClear: the handler of clear logs the error and does not
\* raise it again, so upload_process goes on to the upload.
SwallowClearError(s) ==
    /\ pc' = [pc EXCEPT ![s] = "upload_loop"]
    /\ loc' = [loc EXCEPT ![s] = EnterUpload(@)]
    /\ UNCHANGED <<outcome, is_processing>>

\* An exception leaves clear_smartsheet_data_enhanced (its handler logs and
\* raises again) and reaches the handler of upload_process: "Upload process
\* failed", then the finally clause.
RaiseFromClear(s) ==
    /\ pc' = [pc EXCEPT ![s] = "done"]
    /\ outcome' = [outcome EXCEPT ![s] = "Failed"]
    /\ is_processing' = FALSE
    /\ UNCHANGED loc

\* Variant of RaiseFromUpload: the handler of upload_data_enhanced returns True.
ReturnTrueFromUpload(s) ==
    /\ pc' = [pc EXCEPT ![s] = "report"]
    /\ loc' = [loc EXCEPT ![s].success = TRUE]

\* An exception in upload_data_enhanced reaches the handler of the function:
\* "Upload failed: ...", return False.
RaiseFromUpload(s) ==
    /\ pc' = [pc EXCEPT ![s] = "report"]
    /\ loc' = [loc EXCEPT ![s].success = FALSE]

\* Variant of PauseAfterBatch: the pause follows the last batch too.
PauseAfterEveryBatch(k, total) == k < total

\* if batch_num < total_batches - 1: time.sleep(rate_limit_delay)
PauseAfterBatch(k, total) == k < total - 1

\* time.sleep(retry_delay) in clear, after a failed attempt that is not the last
ClearRetryFactor(a) == 1

\* Variant of Uploaded: the count starts again with every batch.
UploadedThisBatch(uploaded_rows, rows) == Len(rows)

\* uploaded_rows += len(rows_to_add)
Uploaded(uploaded_rows, rows) == uploaded_rows + Len(rows)

\* Variant of UploadRetryFactor: the same delay after every failed attempt.
UploadRetryFixed(a) == 1

\* time.sleep(retry_delay * (attempt + 1)) in upload_data_enhanced
UploadRetryFactor(a) == a + 1

\* clear_smartsheet_data_enhanced, one attempt of the get_sheet retry loop:
\* every exception is retried after retry_delay, the last one is raised through
\* to upload_process, which reports "Upload process failed".  No rows: clear
\* returns and the upload starts.
ClearFetch(s, res) ==
    /\ pc[s] = "clear_fetch"
    /\ calls' = [calls EXCEPT ![s] = Append(@, Call("get_sheet", 0, 0, 0, res))]
    /\ IF res = "ok"
       THEN /\ IF RemoteRows = <<>>
               THEN /\ pc' = [pc EXCEPT ![s] = "upload_loop"]
                    /\ loc' = [loc EXCEPT ![s] = EnterUpload([@ EXCEPT !.row_ids = RemoteRows])]
               ELSE /\ pc' = [pc EXCEPT ![s] = "clear_loop"]
                    /\ loc' = [loc EXCEPT ![s].row_ids = RemoteRows, ![s].batch_num = 0,
                                          ![s].attempt = 0]
            /\ UNCHANGED <<outcome, is_processing, sleeps, progress>>
       ELSE IF LastAttempt(loc[s].attempt)
       THEN /\ RaiseFromClear(s)
            /\ UNCHANGED <<sleeps, progress>>
       ELSE /\ loc' = [loc EXCEPT ![s].attempt = @ + 1]
            /\ sleeps' = [sleeps EXCEPT ![s] =
                  Append(@, Sleep("retry_delay", Len(calls[s]) + 1,
                                  ClearRetryFactor(loc[s].attempt)))]
            /\ UNCHANGED <<pc, outcome, is_processing, progress>>
    /\ UNCHANGED <<upload_cancelled, confirmation_result, upload_config, inputs,
                   front, sheet, history>>

\* clear_smartsheet_data_enhanced, the delete loop: at the top of a sub-batch
\* (attempt 0) the cancel flag is read, and a set flag returns from clear; then
\* one attempt of the delete retry loop, every exception being retried after
\* retry_delay and the last one raised.  A deleted sub-batch that is not the
\* last is followed by rate_limit_delay; after the last sub-batch clear returns
\* and the upload starts.
ClearBatch(s, res) ==
    /\ pc[s] = "clear_loop"
    /\ LET l == loc[s]
           n == Len(l.row_ids)
           total_batches == TotalBatches(n, ClearBatchSize)
           start_idx == StartIdx(l.batch_num, ClearBatchSize)
           end_idx == EndIdx(l.batch_num, ClearBatchSize, n)
           batch_ids == BatchIds(l.row_ids, start_idx, end_idx)
           this == Len(calls[s]) + 1
       IN IF l.attempt = 0 /\ upload_cancelled
          THEN /\ pc' = [pc EXCEPT ![s] = "upload_loop"]
               /\ loc' = [loc EXCEPT ![s] = EnterUpload(@)]
               /\ UNCHANGED <<sheet, calls, sleeps, progress, outcome, is_processing>>
          ELSE /\ calls' = [calls EXCEPT ![s] =
                     Append(@, Call("delete_rows", start_idx, end_idx,
                                    end_idx - start_idx, res))]
               /\ IF res = "ok"
                  THEN /\ sheet' = OnRemote(DeleteRows(sheet, batch_ids))
                       /\ sleeps' = [sleeps EXCEPT ![s] =
                             IF PauseAfterBatch(l.batch_num, total_batches)
                             THEN Append(@, Sleep("rate_limit_delay", this, 1))
                             ELSE @]
                       /\ IF l.batch_num < total_batches - 1
                          THEN /\ loc' = [loc EXCEPT ![s].batch_num = @ + 1,
                                                     ![s].attempt = 0]
                               /\ UNCHANGED pc
                          ELSE /\ pc' = [pc EXCEPT ![s] = "upload_loop"]
                               /\ loc' = [loc EXCEPT ![s] = EnterUpload(@)]
                       /\ UNCHANGED <<outcome, is_processing, progress>>
                  ELSE IF LastAttempt(l.attempt)
                  THEN /\ RaiseFromClear(s)
                       /\ UNCHANGED <<sheet, sleeps, progress>>
                  ELSE /\ loc' = [loc EXCEPT ![s].attempt = @ + 1]
                       /\ sleeps' = [sleeps EXCEPT ![s] =
                             Append(@, Sleep("retry_delay", this,
                                             ClearRetryFactor(l.attempt)))]
                       /\ UNCHANGED <<sheet, pc, outcome, is_processing, progress>>
    /\ UNCHANGED <<upload_cancelled, confirmation_result, upload_config, inputs,
                   front, history>>

\* upload_data_enhanced, the batch loop: the cancel flag is read at the top of
\* a batch and at the top of every attempt, and a set flag returns False; then
\* one attempt of add_rows.  A Timeout and any other exception are both retried
\* after retry_delay * (attempt + 1); the last failure is raised to the
\* function's own handler, which returns False.  An uploaded batch that is not
\* the last is followed by rate_limit_delay; after the last batch the function
\* returns True.
UploadBatch(s, res) ==
    /\ pc[s] = "upload_loop"
    /\ LET l == loc[s]
           total_rows == Len(table)
           total_batches == TotalBatches(total_rows, l.batch_size)
           start_idx == StartIdx(l.batch_num, l.batch_size)
           end_idx == EndIdx(l.batch_num, l.batch_size, total_rows)
           rows_to_add == RowsToAdd(s, start_idx, end_idx)
           this == Len(calls[s]) + 1
       IN IF l.column_map = "None"
          THEN /\ RaiseFromUpload(s)
               /\ UNCHANGED <<sheet, calls, sleeps, progress>>
          ELSE IF upload_cancelled
          THEN /\ pc' = [pc EXCEPT ![s] = "report"]
               /\ loc' = [loc EXCEPT ![s].success = FALSE]
               /\ UNCHANGED <<sheet, calls, sleeps, progress>>
          ELSE /\ calls' = [calls EXCEPT ![s] =
                     Append(@, Call("add_rows", start_idx, end_idx,
                                    Len(rows_to_add), res))]
               /\ IF res = "ok"
                  THEN /\ sheet' = OnRemote(AddRows(sheet, rows_to_add))
                       /\ progress' = [progress EXCEPT ![s] =
                             Append(@, ProgressUpdate(this, Uploaded(l.uploaded_rows, rows_to_add),
                                                      total_rows))]
                       /\ sleeps' = [sleeps EXCEPT ![s] =
                             IF PauseAfterBatch(l.batch_num, total_batches)
                             THEN Append(@, Sleep("rate_limit_delay", this, 1))
                             ELSE @]
                       /\ IF l.batch_num < total_batches - 1
                          THEN /\ loc' = [loc EXCEPT ![s].batch_num = @ + 1,
                                                     ![s].attempt = 0,
                                                     ![s].uploaded_rows = Uploaded(@, rows_to_add)]
                               /\ UNCHANGED pc
                          ELSE /\ pc' = [pc EXCEPT ![s] = "report"]
                               /\ loc' = [loc EXCEPT ![s].success = TRUE,
                                                     ![s].uploaded_rows = Uploaded(@, rows_to_add)]
                  ELSE IF LastAttempt(l.attempt)
                  THEN /\ RaiseFromUpload(s)
                       /\ UNCHANGED <<sheet, sleeps, progress>>
                  ELSE /\ loc' = [loc EXCEPT ![s].attempt = @ + 1]
                       /\ sleeps' = [sleeps EXCEPT ![s] =
                             Append(@, Sleep("retry_delay", this,
                                             UploadRetryFactor(l.attempt)))]
                       /\ UNCHANGED <<sheet, pc, progress>>
    /\ UNCHANGED <<shared, inputs, front, outcome, history>>

\* total_rows = len(processed_df) of upload_process, the count of its messages
\* "Complete! {total_rows} rows uploaded" and "Rows uploaded: {total_rows:,}"
ReportedRows == Len(table)

\* upload_process after upload_data_enhanced returned:
\* if success and not self.upload_cancelled: completed
Report(s) ==
    /\ pc[s] = "report"
    /\ IF loc[s].success /\ ~upload_cancelled
       THEN /\ pc' = [pc EXCEPT ![s] = "done"]
            /\ outcome' = [outcome EXCEPT ![s] = "Completed"]
            /\ is_processing' = FALSE
       ELSE /\ pc' = [pc EXCEPT ![s] = "report2"]
            /\ UNCHANGED <<outcome, is_processing>>
    /\ UNCHANGED <<upload_cancelled, confirmation_result, upload_config, inputs,
                   front, loc, sheet, calls, sleeps, progress, history>>

\* Variant of Report2: the worker ends without the finally clause.
Report2WithoutFinally(s) ==
    /\ pc[s] = "report2"
    /\ pc' = [pc EXCEPT ![s] = "done"]
    /\ outcome' = [outcome EXCEPT ![s] = IF upload_cancelled THEN "Cancelled" ELSE "Failed"]
    /\ UNCHANGED <<shared, inputs, front, loc, sheet, calls, sleeps, progress, history>>

\* elif self.upload_cancelled: "Upload cancelled by user"; else: "Upload failed";
\* then the finally clause.
Report2(s) ==
    /\ pc[s] = "report2"
    /\ pc' = [pc EXCEPT ![s] = "done"]
    /\ outcome' = [outcome EXCEPT ![s] = IF upload_cancelled THEN "Cancelled" ELSE "Failed"]
    /\ is_processing' = FALSE
    /\ UNCHANGED <<upload_cancelled, confirmation_result, upload_config, inputs,
                   front, loc, sheet, calls, sleeps, progress, history>>

\* The steps of worker s, its remote calls ending in one of results.
WorkerWith(s, results) ==
    \/ Begin(s)
    \/ \E ok \in BOOLEAN : Setup(s, ok)
    \/ WaitCheck(s)
    \/ WaitSleep(s)
    \/ CheckConf(s)
    \/ ResetConf(s)
    \/ \E res \in results : ClearFetch(s, CallResult(res))
    \/ \E res \in results : ClearBatch(s, CallResult(res))
    \/ \E res \in results : UploadBatch(s, CallResult(res))
    \/ Report(s)
    \/ Report2(s)

\* A failed remote call is a timeout: the code treats every exception alike.
Worker(s) == WorkerWith(s, TransientResults)

FrontEnd(S) ==
    \/ \E s \in S : StartUploadThreaded(s)
    \/ CancelUpload
    \/ \E s \in S : ShowDialog(s)
    \/ \E ans \in {"True", "False"} : AnswerDialog(ans)

\* The front end makes one upload request.
Next == FrontEnd({1}) \/ Worker(1)

Spec == Init /\ [][Next]_vars

\* The front end makes up to MaxSessions upload requests, at any time.
NextRequests == FrontEnd(Sessions) \/ \E s \in Sessions : Worker(s)

SpecRequests == InitRequests /\ [][NextRequests]_vars

\* The front end makes its next upload request only when no worker is running
\* (the upload button is enabled again by "upload_finished").
StartUploadAfterFinish(s) ==
    /\ \A t \in Sessions : ~Active(t)
    /\ StartUploadThreaded(s)

NextSequential ==
    \/ \E s \in Sessions : StartUploadAfterFinish(s)
    \/ CancelUpload
    \/ \E s \in Sessions : ShowDialog(s)
    \/ \E ans \in {"True", "False"} : AnswerDialog(ans)
    \/ \E s \in Sessions : Worker(s)

SpecSequential == InitRequests /\ [][NextSequential]_vars

\* One upload request whose remote calls may also fail with a fatal error, over
\* a two-row table sent one row per batch with MaxRetries attempts per call.
InitErrors == InitWith(TwoRowTable, {1}, {MaxRetries}, {1})

NextErrors == FrontEnd({1}) \/ WorkerWith(1, CallResults)

SpecErrors == InitErrors /\ [][NextErrors]_vars

\* One upload request whose calls may fail, with one attempt more per call than
\* MaxRetries: a second failed attempt is followed by a third.
InitRetries == InitWith(TwoRowTable, {1}, {MaxRetries + 1}, {1})

SpecRetries == InitRetries /\ [][NextErrors]_vars

\* One upload request with connect attempts at any time.
NextReconnect == FrontEnd({1}) \/ Worker(1) \/ ConnectWith(OtherTokenEntries, OtherUrlEntries)

SpecReconnect == InitRequests /\ [][NextReconnect]_vars

\* One upload request with file selections at any time.
NextFiles == FrontEnd({1}) \/ Worker(1) \/ SelectFiles

SpecFiles == InitRequests /\ [][NextFiles]_vars

\* One upload request whose worker thread keeps being scheduled.
SpecFair == Spec /\ WF_vars(Worker(1))

\* ================================================================= claims

CeilDiv(n, b) == IF n % b = 0 THEN n \div b ELSE n \div b + 1

CallsOf(s, op) == SelectSeq(calls[s], LAMBDA c : c.op = op)

AllOk(cs) == \A i \in DOMAIN cs : cs[i].ok

Populated(lo, hi) == Cardinality({i \in (lo + 1)..hi : table[i]})

\* The calls i .. i + max_retries - 1 of session s are the failed attempts of
\* one batch of op: its retries are exhausted.
ExhaustedAt(s, op, i) ==
    /\ i + max_retries_var - 1 <= Len(calls[s])
    /\ \A j \in i..(i + max_retries_var - 1) :
          /\ calls[s][j].op = op
          /\ ~calls[s][j].ok
          /\ calls[s][j].lo = calls[s][i].lo

Exhausted(s, op) == \E i \in DOMAIN calls[s] : ExhaustedAt(s, op, i)

\* The ids of the rows session s appended / deleted with its successful calls.
SentIds(s) ==
    UNION {Range(RowsToAdd(s, c.lo, c.hi)) :
              c \in {d \in Range(calls[s]) : d.op = "add_rows" /\ d.ok}}

DeletedIds(s) ==
    UNION {{loc[s].row_ids[i] : i \in (c.lo + 1)..c.hi} :
              c \in {d \in Range(calls[s]) : d.op = "delete_rows" /\ d.ok}}

\* C1: with no failed call and no cancel request, upload_data_enhanced issues
\* its add_rows calls in table order, the k-th over rows [(k-1)*B, min(k*B, N))
\* with the populated rows of that slice, ceil(N/B) of them when it has
\* returned, and the sheet ends with exactly those rows in table order.
C1_BatchesInOrder ==
    \A s \in Sessions :
        LET adds == CallsOf(s, "add_rows")
            n == Len(table)
            b == loc[s].batch_size
        IN (AllOk(adds) /\ cancelSeen[s] = "None") =>
              /\ \A k \in DOMAIN adds :
                    /\ adds[k].lo = (k - 1) * b
                    /\ adds[k].hi = Min(k * b, n)
                    /\ adds[k].n = Populated(adds[k].lo, adds[k].hi)
              /\ adds # <<>> =>
                    LET sent == RowsToAdd(s, 0, adds[Len(adds)].hi)
                    IN /\ Len(sent) <= Len(sheet)
                       /\ SubSeq(sheet, Len(sheet) - Len(sent) + 1, Len(sheet)) = sent
              /\ pc[s] \in ReportPcs => Len(adds) = CeilDiv(n, b) /\ loc[s].success
              /\ (pc[s] = "done" /\ adds # <<>>) =>
                    Len(adds) = CeilDiv(n, b) /\ outcome[s] = "Completed"

\* C1 witness: three rows in batches of two went out as two calls (2, then 1).
C1_Witness ==
    LET adds == CallsOf(1, "add_rows")
    IN /\ pc[1] = "done" /\ outcome[1] = "Completed"
       /\ cancelSeen[1] = "None" /\ AllOk(adds)
       /\ Len(table) = 3 /\ loc[1].batch_size = 2
       /\ Len(adds) = 2 /\ adds[2].lo = 2 /\ adds[2].hi = 3

\* C2: a cancel request accepted after a batch of upload_data_enhanced and
\* before the next stops the upload: no further call is issued, the rows sent
\* so far stay on the sheet, and the session ends Cancelled.
C2_CancelBetweenBatches ==
    \A s \in Sessions :
        cancelBetween[s] >= 0 =>
            /\ Len(calls[s]) = cancelBetween[s]
            /\ pc[s] = "done" => outcome[s] = "Cancelled"

\* C3: a session is in its clear or upload phase, or has issued a delete or
\* append call, only if its own confirmation dialog was answered yes.
C3_OwnYesBeforeRemoteWrite ==
    \A s \in Sessions :
        (\/ pc[s] \in ClearPcs \cup {"upload_loop"}
         \/ CallsOf(s, "delete_rows") # <<>>
         \/ CallsOf(s, "add_rows") # <<>>) => ownAnswer[s] = "True"

\* C4: at most one upload worker has been started and has not finished.
C4_AtMostOneWorker == Cardinality({s \in Sessions : Active(s)}) <= 1

\* C5: with no failed call and no cancel request, clear issues its delete calls
\* in fetched order, the k-th over ids [(k-1)*400, min(k*400, R)), each removing
\* exactly its ids from the sheet, ceil(R/400) of them when clear has returned
\* (none for R = 0), whatever the configured batch size.
C5_ClearSubBatches ==
    \A s \in Sessions :
        LET dels == CallsOf(s, "delete_rows")
            ids == loc[s].row_ids
            r == Len(ids)
            gone == IF dels = <<>> THEN 0 ELSE dels[Len(dels)].hi
        IN (AllOk(dels) /\ AllOk(CallsOf(s, "get_sheet")) /\ cancelSeen[s] = "None") =>
              /\ \A k \in DOMAIN dels :
                    /\ dels[k].lo = (k - 1) * 400
                    /\ dels[k].hi = Min(k * 400, r)
                    /\ dels[k].n = dels[k].hi - dels[k].lo
              /\ \A i \in DOMAIN ids : (ids[i] \in Range(sheet)) <=> (i > gone)
              /\ (overwrite_var /\ pc[s] \in {"upload_loop"} \cup ReportPcs) =>
                    Len(dels) = CeilDiv(r, 400)

\* C5 witness: 850 rows were cleared with three calls, the last one of 50 ids,
\* and the upload has started.
C5_Witness ==
    LET dels == CallsOf(1, "delete_rows")
    IN /\ pc[1] = "upload_loop"
       /\ cancelSeen[1] = "None" /\ AllOk(calls[1])
       /\ Len(loc[1].row_ids) = 850
       /\ Len(dels) = 3 /\ dels[3].lo = 800 /\ dels[3].hi = 850

\* C6 (as claimed): once the last allowed attempt of a batch has failed no later
\* call is issued, the rows sent before stay on the sheet, and the session ends
\* Failed.
C6_AbortEndsFailed ==
    \A s \in Sessions : \A i \in DOMAIN calls[s] :
        ExhaustedAt(s, "add_rows", i) =>
            /\ i + max_retries_var - 1 = Len(calls[s])
            /\ SentIds(s) \subseteq Range(sheet)
            /\ pc[s] = "done" => outcome[s] = "Failed"

\* C6 (amended): once the last allowed attempt of a batch has failed no later
\* call is issued, the rows sent before stay on the sheet, and the session ends
\* Failed, or Cancelled when a cancel request was accepted during the session;
\* it never ends Completed.
C6_AbortEndsFailedOrCancelled ==
    \A s \in Sessions : \A i \in DOMAIN calls[s] :
        ExhaustedAt(s, "add_rows", i) =>
            /\ i + max_retries_var - 1 = Len(calls[s])
            /\ SentIds(s) \subseteq Range(sheet)
            /\ pc[s] \in ReportPcs \cup {"done"}
            /\ ~loc[s].success
            /\ pc[s] = "done" =>
                  \/ outcome[s] = "Failed"
                  \/ outcome[s] = "Cancelled" /\ cancelSeen[s] # "None"

\* C6 witness: the second batch failed on every attempt after the first was
\* sent; the session ended Failed with the first batch on the sheet.
C6_Witness ==
    /\ pc[1] = "done" /\ outcome[1] = "Failed"
    /\ Exhausted(1, "add_rows")
    /\ SentIds(1) # {}
    /\ max_retries_var = 2

\* C7: once a delete sub-batch has failed on all max_retries attempts the clear
\* is over and the failure is propagated (the session ends Failed); no later
\* call is issued, the ids of the sub-batches deleted before stay deleted and
\* no other id was deleted.
C7_ClearAbortNoRollback ==
    \A s \in Sessions : \A i \in DOMAIN calls[s] :
        ExhaustedAt(s, "delete_rows", i) =>
            /\ i + max_retries_var - 1 = Len(calls[s])
            /\ pc[s] = "done" /\ outcome[s] = "Failed"
            /\ DeletedIds(s) \cap Range(sheet) = {}
            /\ Range(loc[s].row_ids) \ DeletedIds(s) \subseteq Range(sheet)

\* C7 witness: the second sub-batch failed twice after the first was deleted.
C7_Witness ==
    /\ Exhausted(1, "delete_rows")
    /\ max_retries_var = 2
    /\ Cardinality(DeletedIds(1)) = 400
    /\ Len(sheet) = 450

\* C8: when the get_sheet of clear or one of its delete sub-batches has failed
\* on every attempt, the session ends Failed and has issued no append call.
C8_ClearFailureIsFatal ==
    \A s \in Sessions :
        (Exhausted(s, "get_sheet") \/ Exhausted(s, "delete_rows")) =>
            /\ pc[s] = "done" /\ outcome[s] = "Failed"
            /\ CallsOf(s, "add_rows") = <<>>

\* C8 witness: get_sheet failed on both attempts.
C8_Witness ==
    /\ Exhausted(1, "get_sheet")
    /\ max_retries_var = 2
    /\ pc[1] = "done"

\* C9: a session in which a cancel request was accepted during the confirmation
\* wait, the clear or the upload ends Cancelled.
C9_CancelledNeverFailed ==
    \A s \in Sessions :
        (pc[s] = "done" /\ cancelSeen[s] \in {"wait", "clear", "upload", "between"}) =>
            outcome[s] = "Cancelled"

\* C10: no remote call (get_sheet of clear, delete_rows, add_rows) is issued by
\* a loop iteration that begins with the cancel flag set.
C10_NoCallOnceCancelled ==
    [][\A s \in Sessions : calls'[s] # calls[s] => ~upload_cancelled]_vars

\* C11: a remote call that failed with a fatal error (not a timeout) is never
\* retried: it is the last call of its session and the phase is over.
C11_FatalNeverRetried ==
    \A s \in Sessions : \A i \in DOMAIN calls[s] :
        calls[s][i].err = "fatal" =>
            /\ i = Len(calls[s])
            /\ pc[s] \notin ClearPcs \cup {"upload_loop"}

\* The rate_limit_delay pauses of session s.
RateLimitSleeps(s) == SelectSeq(sleeps[s], LAMBDA z : z.delay = "rate_limit_delay")

\* C13: a rate_limit_delay pause follows a call exactly when the call is a
\* successful add_rows that does not reach the end of the table, or a
\* successful delete_rows that does not reach the end of the fetched ids; it is
\* one pause of one rate_limit_delay.
C13_PauseAfterAllButLast ==
    \A s \in Sessions :
        LET rl == RateLimitSleeps(s)
        IN /\ \A i \in DOMAIN calls[s] :
                 LET c == calls[s][i]
                 IN (\E j \in DOMAIN rl : rl[j].after = i) <=>
                       /\ c.ok
                       /\ \/ c.op = "add_rows" /\ c.hi < Len(table)
                          \/ c.op = "delete_rows" /\ c.hi < Len(loc[s].row_ids)
           /\ \A j, k \in DOMAIN rl : rl[j].after = rl[k].after => j = k
           /\ \A j \in DOMAIN rl : rl[j].factor = 1 /\ rl[j].after \in DOMAIN calls[s]

\* C13 witness: 850 rows cleared in three sub-batches and three rows uploaded
\* in two batches, with two pauses in the clear and one in the upload.
C13_Witness ==
    /\ pc[1] = "done" /\ outcome[1] = "Completed"
    /\ Len(CallsOf(1, "delete_rows")) = 3 /\ Len(CallsOf(1, "add_rows")) = 2
    /\ AllOk(calls[1])
    /\ Len(RateLimitSleeps(1)) = 3

\* C14: when processing returned nothing (None) or an empty table, the session
\* is over with outcome Failed, its confirmation dialog was never scheduled,
\* shown or answered, and it has issued no remote call.
C14_NoDataEndsFailed ==
    \A s \in Sessions :
        loc[s].processed_df \in {"None", "empty"} =>
            /\ pc[s] = "done" /\ outcome[s] = "Failed"
            /\ s \notin pendingDialog \cup Range(dialogs)
            /\ ownAnswer[s] = "None"
            /\ calls[s] = <<>>

\* C14 witness: the cleaned table was empty and the session has ended.
C14_Witness ==
    /\ table = <<>>
    /\ loc[1].processed_df = "empty"
    /\ pc[1] = "done" /\ ~is_processing

\* C15: while the dialog of a session has not been answered, the session has
\* polled at most ConfirmationPolls times, has issued no delete or append call,
\* is not in its clear or upload phase, and if it is over it ended Cancelled.
C15_WaitBounded ==
    \A s \in Sessions :
        s \in pendingDialog \cup Range(dialogs) =>
            /\ loc[s].wait_polls <= ConfirmationPolls
            /\ pc[s] \notin ClearPcs \cup {"upload_loop"} \cup ReportPcs
            /\ CallsOf(s, "delete_rows") = <<>>
            /\ CallsOf(s, "add_rows") = <<>>
            /\ pc[s] = "done" => outcome[s] = "Cancelled"

\* C16: every started worker eventually reaches the end of upload_process with
\* an outcome (Completed, Cancelled or Failed) and is_processing cleared.
C16_EventuallyTerminal ==
    \A s \in Sessions :
        (pc[s] = "spawned") ~>
            (/\ pc[s] = "done"
             /\ outcome[s] \in {"Completed", "Cancelled", "Failed"}
             /\ ~is_processing)

\* C16 witness: the clear raised on its last attempt and the session is over,
\* Failed, with is_processing cleared.
C16_Witness ==
    /\ pc[1] = "done" /\ outcome[1] = "Failed" /\ ~is_processing
    /\ Exhausted(1, "delete_rows")

\* The number x without the trailing zeros of its decimals.
RECURSIVE Canonical(_)
Canonical(x) ==
    IF x.decs > 0 /\ x.mant % 10 = 0
    THEN Canonical([x EXCEPT !.mant = @ \div 10, !.decs = @ - 1])
    ELSE x

\* Two numbers are the same quantity (a zero has no sign).
SameQuantity(x, y) ==
    LET a == Canonical(x)
        b == Canonical(y)
    IN a.mant = b.mant /\ a.decs = b.decs /\ (a.mant = 0 \/ a.neg = b.neg)

\* The distance of x and y in thousandths, both of at most three decimals.
Thousandths(x) == (IF x.neg THEN -1 ELSE 1) * x.mant * Pow10(3 - x.decs)

Distance(x, y) ==
    LET d == Thousandths(x) - Thousandths(y)
    IN IF d < 0 THEN -d ELSE d

NullLike(value) ==
    ~NotNa(value) \/ Lower(Strip(value)) \in {"", "nan", "null", "none", "n/a", "#n/a"}

\* C12: no cell of a row built for an append call has an empty, blank or
\* null-like value; a field whose value is empty or null-like, or becomes empty
\* by the numeric normalization, has no cell in its row.
C12_NoEmptyCellSent ==
    \A r \in DOMAIN new_rows : \A c \in DOMAIN new_rows[r] : ~NullLike(new_rows[r][c].value)

\* C18: the runs of the processing on one stored source table with one
\* configuration return the same cleaned table, multi-level headers included.
C18_ProcessingIdempotent ==
    \A i, j \in DOMAIN cleaned : cleaned[i] = cleaned[j]

\* Two runs in verbatim mode on a source read with two header rows, whose
\* stored columns the first run flattened.
C18_Witness ==
    /\ Len(cleaned) = MaxRuns
    /\ verbatim_var
    /\ file_analysis.has_multi
    /\ ~file_analysis.df_multi.multi
    /\ cleaned[1].rows # <<>>

\* The header check of the positional strategy: at least 7 columns, and at
\* least 5 of the first 7 headers match the patterns of the target of their
\* position.
PositionalApplies(columns) ==
    /\ Len(columns) >= 7
    /\ Cardinality({k \in 1..7 : MatchesAny(columns[k], cin7_column_mapping[k].patterns)}) >= 5

\* The table of the positional strategy: target k takes the values of column k
\* of the source whatever its header, a number cleaned and a text stripped; then
\* Available.
PositionalMapping(df) ==
    LET bound == [columns |-> [k \in DOMAIN cin7_column_mapping |-> cin7_column_mapping[k].target],
                  rows |-> [r \in DOMAIN df.rows |->
                               [k \in DOMAIN cin7_column_mapping |->
                                   IF cin7_column_mapping[k].target \in numeric_columns
                                   THEN clean_numeric_value(df.rows[r][k])
                                   ELSE Strip(Str(df.rows[r][k]))]],
                  multi |-> FALSE, levels |-> <<>>]
        soh == ColumnOf(bound, "SOH")
        open_sales == ColumnOf(bound, "Open Sales")
    IN WithColumn(bound, "Available",
                  [r \in DOMAIN bound.rows |->
                      Available(bound.rows[r][soh], bound.rows[r][open_sales])])

\* C19: with column mapping, the table is the one of the positional strategy if
\* and only if the source has at least 7 columns and at least 5 of its first 7
\* headers match the expected keywords in order; otherwise it is the one of the
\* name-pattern strategy.
C19_PositionalIffHeadersMatch ==
    \A i \in DOMAIN cleaned :
        column_mapping_var =>
            LET df == SourceFrame(file_analysis, verbatim_var)
            IN cleaned[i] = Finished(IF PositionalApplies(df.columns)
                                     THEN PositionalMapping(df)
                                     ELSE apply_cin7_column_mapping_fixed(df),
                                     verbatim_var, TRUE)

\* C20: for the source with the headers SKU, Name, Loc, 4 - SOH, 5 - Incoming,
\* 6 - Open, 7 - Total every field is bound to the column at its index:
\* ProductCode has the values of the first column, whatever its header.
C20_NumberedHeadersBoundByIndex ==
    \A i \in DOMAIN cleaned :
        LET df == SourceFrame(file_analysis, verbatim_var)
        IN (column_mapping_var /\ df.columns = NumberedHeaders) =>
              /\ cleaned[i] = Finished(PositionalMapping(df), verbatim_var, TRUE)
              /\ verbatim_var =>
                    ColumnValues(cleaned[i], ColumnOf(cleaned[i], "ProductCode"))
                        = ColumnValues(df, 1)

\* The key of a row the row filter is to drop: empty, "nan", or containing
\* "total" or "productcode" in any case.
InvalidKey(value) ==
    \/ value = ""
    \/ value = "nan"
    \/ Contains(Lower(value), "total")
    \/ Contains(Lower(value), "productcode")

\* The table of a run before the removal of the invalid rows.
Unfiltered(fa, mapping) ==
    LET df == SourceFrame(fa, FALSE)
    IN CleanNumbers(IF mapping THEN apply_cin7_column_mapping_fixed(df) ELSE df, mapping)

\* The frame has a column called ProductCode.
HasProductCode(df) == \E i \in DOMAIN df.columns : df.columns[i] = "ProductCode"

C22_UnmatchedFieldsGetDefaults ==
    \A i \in DOMAIN cleaned :
        column_mapping_var =>
            LET df == SourceFrame(file_analysis, verbatim_var)
            IN \A k \in DOMAIN cin7_column_mapping :
                  LET target == cin7_column_mapping[k].target
                  IN /\ \E c \in DOMAIN cleaned[i].columns : cleaned[i].columns[c] = target
                     /\ FirstMatch(df.columns, cin7_column_mapping[k].patterns) = 0 =>
                           \A r \in DOMAIN cleaned[i].rows :
                               cleaned[i].rows[r][ColumnOf(cleaned[i], target)]
                                   = DefaultValue(target)

\* The number of the attempt that call i of session s is: one more than the
\* failed calls of the same operation on the same slice before it.
AttemptNumber(s, i) ==
    1 + Cardinality({j \in 1..(i - 1) : /\ calls[s][j].op = calls[s][i].op
                                        /\ calls[s][j].lo = calls[s][i].lo
                                        /\ ~calls[s][j].ok})

\* The sleeps of session s that follow its call i.
SleepsAfter(s, i) == SelectSeq(sleeps[s], LAMBDA z : z.after = i)

\* C23: a call is attempted at most max_retries times and every batch of a
\* finished upload at least once; the k-th failed attempt, k < max_retries, is
\* followed by one wait, of retry_delay * k for an append and of retry_delay
\* for the fetch and the deletes of clear; the last failed attempt is followed
\* by no wait and no call.
C23_RetryDelays ==
    \A s \in Sessions :
        /\ \A i \in DOMAIN calls[s] :
              LET c == calls[s][i]
                  k == AttemptNumber(s, i)
                  retries == SelectSeq(SleepsAfter(s, i), LAMBDA z : z.delay = "retry_delay")
              IN /\ k <= upload_config.max_retries
                 /\ c.ok => retries = <<>>
                 /\ (~c.ok /\ k < upload_config.max_retries) =>
                       /\ SleepsAfter(s, i) =
                             <<Sleep("retry_delay", i, IF c.op = "add_rows" THEN k ELSE 1)>>
                       /\ i < Len(calls[s]) =>
                             /\ calls[s][i + 1].op = c.op
                             /\ calls[s][i + 1].lo = c.lo
                 /\ (~c.ok /\ k = upload_config.max_retries) =>
                       /\ SleepsAfter(s, i) = <<>>
                       /\ i = Len(calls[s])
        /\ (pc[s] \in ReportPcs /\ loc[s].success) =>
              \A b \in 0..(TotalBatches(Len(table), loc[s].batch_size) - 1) :
                  \E i \in DOMAIN calls[s] :
                      /\ calls[s][i].op = "add_rows"
                      /\ calls[s][i].lo = StartIdx(b, loc[s].batch_size)

\* An append failed twice and went through at the third attempt, and a delete
\* failed once: the waits were retry_delay, then twice retry_delay, and
\* retry_delay.
C23_Witness ==
    \E i \in DOMAIN calls[1] :
        /\ i + 2 <= Len(calls[1])
        /\ calls[1][i].op = "add_rows" /\ ~calls[1][i].ok
        /\ calls[1][i + 1].op = "add_rows" /\ ~calls[1][i + 1].ok
        /\ calls[1][i + 2].op = "add_rows" /\ calls[1][i + 2].ok
        /\ SleepsAfter(1, i) = <<Sleep("retry_delay", i, 1)>>
        /\ SleepsAfter(1, i + 1) = <<Sleep("retry_delay", i + 1, 2)>>
        /\ \E j \in 1..(i - 1) :
              /\ calls[1][j].op = "delete_rows" /\ ~calls[1][j].ok
              /\ SleepsAfter(1, j) = <<Sleep("retry_delay", j, 1)>>

\* Before its call i session s fetched the sheet and deleted every sub-batch
\* of the rows it found (none when the sheet had no rows).
ClearedBefore(s, i) ==
    /\ \E j \in 1..(i - 1) : calls[s][j].op = "get_sheet" /\ calls[s][j].ok
    /\ \A b \in 0..(TotalBatches(Len(loc[s].row_ids), ClearBatchSize) - 1) :
          \E j \in 1..(i - 1) :
              /\ calls[s][j].op = "delete_rows"
              /\ calls[s][j].ok
              /\ calls[s][j].lo = StartIdx(b, ClearBatchSize)

\* C24: in overwrite mode a session issues no append before its clear phase
\* has finished (every delete sub-batch done, or no row on the sheet); in
\* append mode it issues no call of the clear phase.
C24_ClearBeforeUpload ==
    \A s \in Sessions : \A i \in DOMAIN calls[s] :
        IF overwrite_var
        THEN calls[s][i].op = "add_rows" => ClearedBefore(s, i)
        ELSE calls[s][i].op = "add_rows"

\* A value that upload_data_enhanced makes a cell of.
Populating(value) ==
    NotNa(value) /\ Strip(value) \notin {"", "nan", "None", "null"}

\* The rows of a cleaned table with a populating value in a column of the sheet.
PopulatedRows(df) ==
    {r \in DOMAIN df.rows :
        \E i \in DOMAIN df.columns :
            df.columns[i] \in SheetTitles /\ Populating(df.rows[r][i])}

RowsSentUpTo(s, i) ==
    LET F[j \in 0..i] ==
            IF j = 0 THEN 0
            ELSE F[j - 1] + (IF calls[s][j].op = "add_rows" /\ calls[s][j].ok
                             THEN calls[s][j].n ELSE 0)
    IN F[i]

\* C26: progress is reported once after every successful append and after no
\* other call; the rows reported as uploaded are the rows sent in the
\* successful appends so far, never fewer than in the report before and never
\* more than the reported total, the rows of the table.
C26_ProgressAfterEachBatch ==
    \A s \in Sessions :
        /\ \A i \in DOMAIN calls[s] :
              Len(SelectSeq(progress[s], LAMBDA p : p.after = i))
                  = (IF calls[s][i].op = "add_rows" /\ calls[s][i].ok THEN 1 ELSE 0)
        /\ \A k \in DOMAIN progress[s] :
              LET p == progress[s][k]
              IN /\ p.after \in DOMAIN calls[s]
                 /\ p.uploaded = RowsSentUpTo(s, p.after)
                 /\ p.uploaded <= p.total
                 /\ p.total = Len(table)
                 /\ k > 1 => /\ progress[s][k - 1].uploaded <= p.uploaded
                             /\ progress[s][k - 1].after < p.after

\* Two batches went through, the second after a failed attempt: two reports,
\* the second of more rows than the first.
C26_Witness ==
    /\ Len(progress[1]) = 2
    /\ progress[1][1].uploaded > 0
    /\ progress[1][2].uploaded > progress[1][1].uploaded
    /\ \E i \in DOMAIN calls[1] : calls[1][i].op = "add_rows" /\ ~calls[1][i].ok

\* The leftmost header that contains one of the alias tokens in any case (there
\* is one).
Leftmost(columns, patterns) ==
    CHOOSE i \in DOMAIN columns :
        /\ MatchesAny(columns[i], patterns)
        /\ \A j \in 1..(i - 1) : ~MatchesAny(columns[j], patterns)

\* C27: with column mapping every target field that some source header matches
\* has the values of the leftmost such header, a number cleaned and a text
\* stripped; of two headers of one name the first is used.
C27_LeftmostMatchBound ==
    \A i \in DOMAIN cleaned :
        (column_mapping_var /\ verbatim_var) =>
            LET df == SourceFrame(file_analysis, verbatim_var)
            IN \A k \in DOMAIN cin7_column_mapping :
                  LET target == cin7_column_mapping[k].target
                      patterns == cin7_column_mapping[k].patterns
                  IN (\E c \in DOMAIN df.columns : MatchesAny(df.columns[c], patterns)) =>
                        /\ Len(cleaned[i].rows) = Len(df.rows)
                        /\ \A r \in DOMAIN df.rows :
                              cleaned[i].rows[r][ColumnOf(cleaned[i], target)]
                                  = IF target \in numeric_columns
                                    THEN clean_numeric_value(df.rows[r][Leftmost(df.columns, patterns)])
                                    ELSE Strip(Str(df.rows[r][Leftmost(df.columns, patterns)]))

\* A source with two SOH headers was mapped: SOH has the values of the first.
C27_Witness ==
    /\ column_mapping_var /\ verbatim_var /\ ~file_analysis.has_multi
    /\ file_analysis.df.columns = <<"ProductCode", "SOH", "SOH.1">>
    /\ Len(cleaned) >= 1
    /\ Len(cleaned[1].rows) = 1
    /\ file_analysis.df.rows[1][2] = "1,244.00"
    /\ cleaned[1].rows[1][ColumnOf(cleaned[1], "SOH")] = "1244"

\* C28: not verbatim, no row is kept whose ProductCode is a null-like token in
\* any case (nan, null, none, n/a, #n/a) or missing, the default of an
\* unmatched ProductCode included.
C28_NullLikeKeysDropped ==
    \A i \in DOMAIN cleaned :
        (~verbatim_var /\ HasProductCode(cleaned[i])) =>
            \A r \in DOMAIN cleaned[i].rows :
                ~NullLike(cleaned[i].rows[r][ColumnOf(cleaned[i], "ProductCode")])

\* C29: verbatim, no row is removed: the cleaned table has the rows of the
\* source table in their order, one for one, and every value of a numeric
\* field in it is normalized.
C29_VerbatimKeepsRows ==
    \A i \in DOMAIN cleaned :
        verbatim_var =>
            LET df == SourceFrame(file_analysis, verbatim_var)
            IN /\ Len(cleaned[i].rows) = Len(df.rows)
               /\ ~column_mapping_var =>
                     \A r \in DOMAIN cleaned[i].rows : \A c \in DOMAIN df.columns :
                         cleaned[i].rows[r][c]
                             \in {df.rows[r][c], clean_numeric_value(df.rows[r][c])}
               /\ \A r \in DOMAIN cleaned[i].rows : \A c \in DOMAIN cleaned[i].columns :
                     cleaned[i].columns[c] \in numeric_columns =>
                         clean_numeric_value(cleaned[i].rows[r][c]) = cleaned[i].rows[r][c]

\* Some header of the source matches target k of cin7_column_mapping.
Matched(df, k) == FirstMatch(df.columns, cin7_column_mapping[k].patterns) # 0

\* C30: with column mapping the Available of a row is its normalized SOH less
\* its normalized Open Sales, an integer written plainly and any other number
\* with at most two decimals, when the source has both columns; it is not
\* computed when the source lacks one of them.
C30_AvailableFromBoth ==
    \A i \in DOMAIN cleaned :
        column_mapping_var =>
            LET df == SourceFrame(file_analysis, verbatim_var)
                out == cleaned[i]
            IN \A r \in DOMAIN out.rows :
                  LET soh == ParseFloat(out.rows[r][ColumnOf(out, "SOH")])
                      open_sales == ParseFloat(out.rows[r][ColumnOf(out, "Open Sales")])
                      available == out.rows[r][ColumnOf(out, "Available")]
                  IN IF Matched(df, ColumnOf(out, "SOH")) /\ Matched(df, ColumnOf(out, "Open Sales"))
                     THEN (soh.ok /\ open_sales.ok) =>
                             available = FormatNumber(Minus(soh, open_sales))
                     ELSE available = ""

\* A formula-safe numeric token: it parses as a number and has no comma,
\* whitespace or currency symbol.
FormulaSafe(str) ==
    /\ ParseFloat(str).ok
    /\ \A c \in {",", " ", "$"} : ~Contains(str, c)

\* C32: for every raw input clean_numeric_value returns the empty marker or a
\* formula-safe numeric token.
C32_TokenIsNumericOrEmpty ==
    pipe_pc = "normalized" => token = "" \/ FormulaSafe(token)

\* C35: clean_numeric_value is idempotent: applied to the token it returned,
\* as upload_data_enhanced does with the numeric cells of the cleaned table,
\* it returns the same token.
C35_NormalizeIdempotent ==
    pipe_pc = "normalized" => clean_numeric_value(token) = token

\* The source column target k of cin7_column_mapping is bound to, 0 for none.
Bound(df, k) == FirstMatch(df.columns, cin7_column_mapping[k].patterns)

\* The canonical headers, in order.
CanonicalHeaders ==
    <<"ProductCode", "Product", "Branch", "SOH", "Incoming NOT paid", "Open Sales",
      "Grand Total">>

\* C36: the name-pattern mapping binds no two target fields to one source
\* column, and with the canonical headers it binds every target field to the
\* column of its own name.
C36_BindingsDistinct ==
    (column_mapping_var /\ cleaned # <<>>) =>
        LET df == SourceFrame(file_analysis, verbatim_var)
            targets == DOMAIN cin7_column_mapping
        IN /\ \A j, k \in targets : (j # k /\ Bound(df, j) # 0) => Bound(df, j) # Bound(df, k)
           /\ df.columns = CanonicalHeaders =>
                 \A k \in targets : df.columns[Bound(df, k)] = cin7_column_mapping[k].target

\* Every batch of the table was appended by session s with a successful call.
AllBatchesAppended(s) ==
    /\ loc[s].batch_size > 0
    /\ \A k \in 0..(TotalBatches(Len(table), loc[s].batch_size) - 1) :
          \E i \in DOMAIN calls[s] :
              /\ calls[s][i].op = "add_rows"
              /\ calls[s][i].ok
              /\ calls[s][i].lo = StartIdx(k, loc[s].batch_size)

\* C34: a session reported as completed reports as many uploaded rows as its
\* append calls sent, every row of the table among them; and a finished
\* session whose batches were all appended is reported as completed.
C34_ReportMatchesSent ==
    \A s \in Sessions :
        /\ outcome[s] = "Completed" =>
              /\ ReportedRows = RowsSentUpTo(s, Len(calls[s]))
              /\ \A r \in DOMAIN table : NewRowId(s, r) \in SentIds(s)
        /\ (pc[s] = "done" /\ AllBatchesAppended(s)) => outcome[s] = "Completed"

\* Session s ended in its confirmation wait: cancelled, with no remote call.
EndedInWait(s) == pc[s] = "done" /\ outcome[s] = "Cancelled" /\ calls[s] = <<>>

\* C33: a session started after one that ended in its confirmation wait
\* (declined, timed out or cancelled there) waits for the answer to its own
\* prompt: with no cancel request of its own it is not cancelled before that
\* answer or the timeout, and once answered yes in time it goes on to its
\* remote calls.
C33_NextSessionAsksAgain ==
    \A s \in Sessions \ {1} :
        (EndedInWait(s - 1) /\ pc[s] = "done" /\ cancelSeen[s] = "None") =>
            /\ outcome[s] = "Cancelled" =>
                  ownAnswer[s] # "None" \/ loc[s].wait_polls = ConfirmationPolls
            /\ (ownAnswer[s] = "True" /\ loc[s].wait_polls < ConfirmationPolls) =>
                  calls[s] # <<>>

\* C39: a cancel request accepted after the worker's first statement and
\* before the session left its confirmation wait is not lost, whatever the
\* order of the worker's reset of upload_cancelled and the prompt's answer:
\* the session issues no delete and no append call and does not end Completed.
C39_EarlyCancelNotLost ==
    \A s \in Sessions :
        cancelInWait[s] =>
            /\ CallsOf(s, "delete_rows") = <<>>
            /\ CallsOf(s, "add_rows") = <<>>
            /\ outcome[s] # "Completed"

\* C31: a connect attempt whose address gives no sheet identifier fails and
\* leaves what the session held before it: the client, the sheet, and the
\* stored token and address.
C31_UnresolvedLeavesPrior ==
    (connecting.pc = "idle" /\ connecting.result = "unresolved") =>
        Held = connecting.prior

\* C38: every delete and append call of a session is addressed to the sheet
\* that was held when the session was requested, the appends with the column
\* map of that sheet, and no attempt of the session fails for want of a client
\* or a sheet, whatever a connect attempt does meanwhile.
C38_OneSheetPerSession ==
    \A s \in Sessions :
        /\ loc[s].column_map \in {"unset", loc[s].held_sheet}
        /\ \A i \in DOMAIN calls[s] : calls[s][i].sheet = loc[s].held_sheet

\* C37: the table a session processes and uploads is read from the file that
\* is selected when it is processed, also when the analysis of that file has
\* not ended or has failed.
C37_TableOfSelectedFile ==
    \A s \in Sessions :
        loc[s].processed_df = "rows" => loc[s].source_file = loc[s].selected_file

====
